---------------------------- MODULE Spec2Model ----------------------------
(***************************************************************************)
(* Model of the OCR fusion engine of measurementor (src-tauri/src/ocr.rs)  *)
(* and of the call extract makes to it (src-tauri/src/processor.rs).       *)
(*                                                                         *)
(* Representation                                                          *)
(*   String          a sequence of one-character strings, <<"4", "S">>     *)
(*   Option<T>       a sequence of length 0 (None) or 1 (Some(x))          *)
(*   f64 value       the decimal [m |-> mantissa, d |-> decimals] stands   *)
(*                   for the f64 nearest to m / 10^d, as parsing a literal *)
(*                   gives it; the result of an operation that is not such *)
(*                   a decimal is [kind |-> "fin", neg, mant, exp] for     *)
(*                   mant * 2^exp, [kind |-> "inf", neg] or                *)
(*                   [kind |-> "nan"]. Arithmetic rounds to 53 bits, to    *)
(*                   nearest and ties to even, as IEEE 754 does.           *)
(*   confidence      an integer c in 0..ConfSteps standing for c/ConfSteps *)
(*   validation      an integer numerator over ScoreOne (1.0 = ScoreOne)   *)
(*   score                                                                 *)
(***************************************************************************)
EXTENDS Integers, Sequences, FiniteSets, TLC

\* ------------------------------------------------------------------ bounds

\* Confidences and thresholds are the multiples of 1/ConfSteps in [0, 1].
ConfSteps == 2
\* Frame sizes and region coordinates range up to MaxCoord.
MaxCoord == 2
\* Keyframe timestamps are 0, 5, ..., 5 * MaxStep seconds.
MaxStep == 2
\* A keyframe list holds at most MaxKeyframes keyframes.
MaxKeyframes == 3
\* The last frame number of an extraction.
MaxFrame == 2
\* cancel_extract is called at most MaxCancels times during one extraction.
MaxCancels == 2
\* The texts clean_number is applied to hold at most MaxLen characters.
MaxLen == 4
\* CLAHE tiles are at most MaxTile pixels wide and high.
MaxTile == 17

\* ------------------------------------------------------------------ Option

None == <<>>
Some(x) == <<x>>
IsSome(o) == o # <<>>
Unwrap(o) == o[1]

Abs(n) == IF n < 0 THEN -n ELSE n
Min(a, b) == IF a <= b THEN a ELSE b
Max(a, b) == IF a >= b THEN a ELSE b

RECURSIVE Pow10(_)
Pow10(n) == IF n = 0 THEN 1 ELSE 10 * Pow10(n - 1)

RECURSIVE Pow5(_)
Pow5(n) == IF n = 0 THEN 1 ELSE 5 * Pow5(n - 1)

RECURSIVE Pow2(_)
Pow2(n) == IF n = 0 THEN 1 ELSE 2 * Pow2(n - 1)

\* -------------------------------------------------------- natural numbers

\* A natural number of any size is the sequence of its digits to the base
\* 2^15 = 32768, the least digit first and no zero at the top; <<>> is zero.
\* Sums, differences and quotients run over the halves of a range of digits
\* and hand the carry from one half to the other.
Greatest(S) == CHOOSE i \in S : \A j \in S : j <= i
Least(S) == CHOOSE i \in S : \A j \in S : i <= j

BNormTo(a, nz) == IF nz = {} THEN <<>> ELSE SubSeq(a, 1, Greatest(nz))

BNorm(a) == BNormTo(a, {i \in 1..Len(a) : a[i] # 0})

RECURSIVE BFromNat(_)
BFromNat(n) ==
    IF n = 0 THEN <<>> ELSE <<n % 32768>> \o BFromNat(n \div 32768)

BLimb(a, i) == IF i <= Len(a) THEN a[i] ELSE 0

\* The number as an integer; it has to be below 2^31.
BToNat(a) == BLimb(a, 1) + 32768 * BLimb(a, 2) + 1073741824 * BLimb(a, 3)

BCmpAt(a, b, diff) ==
    IF diff = {} THEN 0
    ELSE IF a[Greatest(diff)] < b[Greatest(diff)] THEN -1 ELSE 1

\* -1, 0, 1 as a < b, a = b, a > b.
BCmp(a, b) ==
    IF Len(a) < Len(b) THEN -1
    ELSE IF Len(a) > Len(b) THEN 1
    ELSE BCmpAt(a, b, {i \in 1..Len(a) : a[i] # b[i]})

\* The digits lo..hi of a + b and the carry out of them, for the carry c
\* into them.
Halves(l, h) == [s |-> l.s \o h.s, c |-> h.c]

RECURSIVE BAddRange(_, _, _, _, _)
BAddUpper(a, b, lo, hi, l) == Halves(l, BAddRange(a, b, lo, hi, l.c))

BAddRange(a, b, lo, hi, c) ==
    IF lo = hi
    THEN [s |-> <<(BLimb(a, lo) + BLimb(b, lo) + c) % 32768>>,
          c |-> (BLimb(a, lo) + BLimb(b, lo) + c) \div 32768]
    ELSE BAddUpper(a, b, (lo + hi) \div 2 + 1, hi,
                   BAddRange(a, b, lo, (lo + hi) \div 2, c))

WithCarry(r) == IF r.c = 0 THEN r.s ELSE r.s \o <<r.c>>

BAdd(a, b) ==
    IF a = <<>> THEN b
    ELSE IF b = <<>> THEN a
    ELSE WithCarry(BAddRange(a, b, 1, Max(Len(a), Len(b)), 0))

RECURSIVE BSubRange(_, _, _, _, _)
BSubUpper(a, b, lo, hi, l) == Halves(l, BSubRange(a, b, lo, hi, l.c))

BSubRange(a, b, lo, hi, c) ==
    IF lo = hi
    THEN [s |-> <<(a[lo] - BLimb(b, lo) - c) % 32768>>,
          c |-> IF a[lo] - BLimb(b, lo) - c < 0 THEN 1 ELSE 0]
    ELSE BSubUpper(a, b, (lo + hi) \div 2 + 1, hi,
                   BSubRange(a, b, lo, (lo + hi) \div 2, c))

\* a - b, for a >= b.
BSub(a, b) ==
    IF a = <<>> THEN <<>> ELSE BNorm(BSubRange(a, b, 1, Len(a), 0).s)

RECURSIVE BMulSmallRange(_, _, _, _, _)
BMulSmallUpper(a, k, lo, hi, l) ==
    Halves(l, BMulSmallRange(a, k, lo, hi, l.c))

BMulSmallRange(a, k, lo, hi, c) ==
    IF lo = hi
    THEN [s |-> <<(a[lo] * k + c) % 32768>>, c |-> (a[lo] * k + c) \div 32768]
    ELSE BMulSmallUpper(a, k, (lo + hi) \div 2 + 1, hi,
                        BMulSmallRange(a, k, lo, (lo + hi) \div 2, c))

\* a * k, for k < 2^15.
BMulSmall(a, k) ==
    IF k = 0 \/ a = <<>> THEN <<>>
    ELSE WithCarry(BMulSmallRange(a, k, 1, Len(a), 0))

\* a * 2^(15 * n)
BShiftLimbs(a, n) == IF a = <<>> THEN <<>> ELSE [i \in 1..n |-> 0] \o a

\* a times the digits lo..hi of b.
RECURSIVE BMulRange(_, _, _, _)
BMulRange(a, b, lo, hi) ==
    IF lo = hi THEN BMulSmall(a, b[lo])
    ELSE BAdd(BMulRange(a, b, lo, (lo + hi) \div 2),
              BShiftLimbs(BMulRange(a, b, (lo + hi) \div 2 + 1, hi),
                          (lo + hi) \div 2 - lo + 1))

BMul(a, b) ==
    IF a = <<>> \/ b = <<>> THEN <<>> ELSE BMulRange(a, b, 1, Len(b))

\* a * 2^n
BShl(a, n) == BMulSmall(BShiftLimbs(a, n \div 15), Pow2(n % 15))

Reverse(s) == [i \in 1..Len(s) |-> s[Len(s) + 1 - i]]

\* The digits hi..lo of a \div k, the top one first, and the remainder after
\* them, for the remainder r of the digits above them.
QuotHalves(h, l) == [q |-> h.q \o l.q, r |-> l.r]

RECURSIVE BDivSmallRange(_, _, _, _, _)
BDivSmallLower(a, k, hi, lo, h) ==
    QuotHalves(h, BDivSmallRange(a, k, hi, lo, h.r))

BDivSmallRange(a, k, hi, lo, r) ==
    IF lo = hi
    THEN [q |-> <<(r * 32768 + a[lo]) \div k>>, r |-> (r * 32768 + a[lo]) % k]
    ELSE BDivSmallLower(a, k, (lo + hi) \div 2, lo,
                        BDivSmallRange(a, k, hi, (lo + hi) \div 2 + 1, r))

\* a \div k and a % k, for 0 < k <= 2^15.
BDivSmall(a, k) ==
    IF a = <<>> THEN <<>>
    ELSE BNorm(Reverse(BDivSmallRange(a, k, Len(a), 1, 0).q))
BModSmall(a, k) ==
    IF a = <<>> THEN 0 ELSE BDivSmallRange(a, k, Len(a), 1, 0).r

\* a \div 2^n
BShr(a, n) == BDivSmall(SubSeq(a, n \div 15 + 1, Len(a)), Pow2(n % 15))

RECURSIVE BitLenSmall(_)
BitLenSmall(n) == IF n = 0 THEN 0 ELSE 1 + BitLenSmall(n \div 2)

\* The number of binary digits of a.
BBitLen(a) ==
    IF a = <<>> THEN 0 ELSE 15 * (Len(a) - 1) + BitLenSmall(a[Len(a)])

RECURSIVE TzSmall(_)
TzSmall(n) == IF n % 2 = 1 THEN 0 ELSE 1 + TzSmall(n \div 2)

BTzAt(a, i) == 15 * (i - 1) + TzSmall(a[i])

\* The number of zeros at the low end of the binary digits of a # 0.
BTrailingZeros(a) == BTzAt(a, Least({i \in 1..Len(a) : a[i] # 0}))

\* The greatest digit q in lo..hi with b * q <= cur.
RECURSIVE QDigit(_, _, _, _)
QDigit(cur, b, lo, hi) ==
    IF lo = hi THEN lo
    ELSE IF BCmp(BMulSmall(b, (lo + hi + 1) \div 2), cur) <= 0
    THEN QDigit(cur, b, (lo + hi + 1) \div 2, hi)
    ELSE QDigit(cur, b, lo, (lo + hi + 1) \div 2 - 1)

BDivDigit(cur, b, qd) == [q |-> <<qd>>, r |-> BSub(cur, BMulSmall(b, qd))]

\* One digit of the quotient: cur \div b, which is below 2^15, and cur % b.
BDivStep(cur, b) == BDivDigit(cur, b, QDigit(cur, b, 0, 32767))

\* Long division by b # 0: the digits hi..lo of the quotient, the top one
\* first, and the remainder after them, for the remainder r of the digits
\* above them.
RECURSIVE BDivRange(_, _, _, _, _)
BDivLower(a, b, hi, lo, h) == QuotHalves(h, BDivRange(a, b, hi, lo, h.r))

BDivRange(a, b, hi, lo, r) ==
    IF lo = hi THEN BDivStep(BNorm(<<a[lo]>> \o r), b)
    ELSE BDivLower(a, b, (lo + hi) \div 2, lo,
                   BDivRange(a, b, hi, (lo + hi) \div 2 + 1, r))

\* The quotient with its least digit first.
BQuotRem(qr) == [q |-> BNorm(Reverse(qr.q)), r |-> qr.r]

\* [q |-> a \div b, r |-> a % b]
BDivMod(a, b) ==
    IF a = <<>> THEN [q |-> <<>>, r |-> <<>>]
    ELSE BQuotRem(BDivRange(a, b, Len(a), 1, <<>>))

\* h * h * k
BSquareTimes(h, k) == BMulSmall(BMul(h, h), k)

RECURSIVE BPow10(_)
BPow10(n) ==
    IF n <= 4 THEN BFromNat(Pow10(n))
    ELSE BSquareTimes(BPow10(n \div 2), IF n % 2 = 0 THEN 1 ELSE 10)

\* -------------------------------------------------------------------- f64

\* An f64 value is written in one of two ways:
\*   [m, d]                  the f64 nearest to the decimal m / 10^d, the
\*                           value of the literal and of the parsed text;
\*   [kind, neg, mant, exp]  the finite f64 (-1)^neg * mant * 2^exp with mant
\*                           odd or zero, [kind |-> "inf", neg] an infinity
\*                           and [kind |-> "nan"] a NaN.
\* Arithmetic is IEEE-754: the exact result rounded to 53 binary digits,
\* ties to the even one, exponents from -1074 to 971.
IsDec(x) == "m" \in DOMAIN x

\* The f64 with integer value n.
F(n) == [m |-> n, d |-> 0]

NaN == [kind |-> "nan"]
Inf(neg) == [kind |-> "inf", neg |-> neg]
Fin(neg, mant, exp) == [kind |-> "fin", neg |-> neg, mant |-> mant, exp |-> exp]
Zero(neg) == Fin(neg, <<>>, 0)

IsNaN(x) == ~IsDec(x) /\ x.kind = "nan"
IsInf(x) == ~IsDec(x) /\ x.kind = "inf"
IsZero(x) == x.kind = "fin" /\ x.mant = <<>>
IsFinite(x) == IsDec(x) \/ x.kind = "fin"

\* (-1)^neg * q * 2^e, which has to fit an f64 unless it overflows.
CanonOdd(neg, q, e, tz) == Fin(neg, BShr(q, tz), e + tz)

Canon(neg, q, e) ==
    IF q = <<>> THEN Zero(neg)
    ELSE IF BBitLen(q) + e > 1024 THEN Inf(neg)
    ELSE CanonOdd(neg, q, e, BTrailingZeros(q))

\* num / den * 2^e rounded to a whole multiple of 2^e, ties to even.
RoundsUp(q, c) == c > 0 \/ (c = 0 /\ BLimb(q, 1) % 2 = 1)

RoundQuot(neg, qr, den, e) ==
    Canon(neg,
          IF RoundsUp(qr.q, BCmp(BShl(qr.r, 1), den)) THEN BAdd(qr.q, <<1>>)
          ELSE qr.q,
          e)

RoundDiv(neg, num, den, e) == RoundQuot(neg, BDivMod(num, den), den, e)

\* The exponent of the last binary digit an f64 keeps of p / q * 2^sh.
LastDigitOf(p, q, sh, lp, lq) ==
    Max(lp - lq
           - (IF BCmp(BShl(p, Max(lq - lp, 0)), BShl(q, Max(lp - lq, 0))) >= 0
              THEN 52 ELSE 53)
           + sh,
        -1074)

LastDigit(p, q, sh) == LastDigitOf(p, q, sh, BBitLen(p), BBitLen(q))

RoundTo(neg, p, q, sh, e) ==
    RoundDiv(neg, IF e < sh THEN BShl(p, sh - e) ELSE p,
             IF e > sh THEN BShl(q, e - sh) ELSE q, e)

\* The f64 nearest to (-1)^neg * p / q * 2^sh, for p, q # 0.
Round53(neg, p, q, sh) ==
    IF q = <<1>> /\ BBitLen(p) <= 53 /\ sh >= -1074 THEN Canon(neg, p, sh)
    ELSE RoundTo(neg, p, q, sh, LastDigit(p, q, sh))

\* n as f64, for an i32 or a frame number.
IntToF64(n) ==
    IF n = -2147483647 - 1 THEN Fin(TRUE, <<1>>, 31)
    ELSE Canon(n < 0, BFromNat(Abs(n)), 0)

DecToF64(x) ==
    IF x.m = 0 THEN Zero(FALSE)
    ELSE Round53(x.m < 0, BFromNat(Abs(x.m)), BPow10(x.d), 0)

\* The binary digits of an f64 value.
ToF64(x) == IF IsDec(x) THEN DecToF64(x) ELSE x

Negated(a) == IF a.kind = "nan" THEN a ELSE [a EXCEPT !.neg = ~a.neg]
AbsF64(a) == IF a.kind = "nan" THEN a ELSE [a EXCEPT !.neg = FALSE]

\* The exponent above the top binary digit of a finite a # 0.
Top(a) == BBitLen(a.mant) + a.exp

\* -1, 0, 1 as |a| < |b|, |a| = |b|, |a| > |b|, for finite a, b # 0.
MagCmp(a, b) ==
    IF Top(a) # Top(b) THEN (IF Top(a) < Top(b) THEN -1 ELSE 1)
    ELSE BCmp(BShl(a.mant, a.exp - Min(a.exp, b.exp)),
              BShl(b.mant, b.exp - Min(a.exp, b.exp)))

Sign(a) == IF IsZero(a) THEN 0 ELSE IF a.neg THEN -1 ELSE 1

\* -1, 0, 1 as a < b, a = b, a > b, for a and b that are no NaN.
CmpF64(a, b) ==
    IF Sign(a) # Sign(b) THEN (IF Sign(a) < Sign(b) THEN -1 ELSE 1)
    ELSE IF Sign(a) = 0 THEN 0
    ELSE IF a.kind = "inf" \/ b.kind = "inf"
    THEN (IF a.kind = b.kind THEN 0
          ELSE IF a.kind = "inf" THEN Sign(a) ELSE -Sign(a))
    ELSE Sign(a) * MagCmp(a, b)

LeF64(a, b) == a.kind # "nan" /\ b.kind # "nan" /\ CmpF64(a, b) <= 0
LtF64(a, b) == a.kind # "nan" /\ b.kind # "nan" /\ CmpF64(a, b) < 0

\* a + b for finite a and b that are not zero and whose top digits are less
\* than 56 places apart.
\* x * 2^e + y * 2^e with the signs of a and b, where c compares x with y.
AddSigned(a, b, x, y, e, c) ==
    IF a.neg # b.neg /\ c = 0 THEN Zero(FALSE)
    ELSE Round53(IF a.neg = b.neg \/ c > 0 THEN a.neg ELSE b.neg,
                 IF a.neg = b.neg THEN BAdd(x, y)
                 ELSE IF c > 0 THEN BSub(x, y) ELSE BSub(y, x),
                 <<1>>, e)

AddAligned(a, b, x, y, e) == AddSigned(a, b, x, y, e, BCmp(x, y))

AddAt(a, b, e) ==
    AddAligned(a, b, BShl(a.mant, a.exp - e), BShl(b.mant, b.exp - e), e)

AddNear(a, b) == AddAt(a, b, Min(a.exp, b.exp))

\* a + b for finite a and b that are not zero: a term below a quarter of
\* the last digit of the other one is rounded away.
AddFin(a, b) ==
    IF Top(a) - Top(b) >= 56 THEN a
    ELSE IF Top(b) - Top(a) >= 56 THEN b
    ELSE AddNear(a, b)

\* a + b
AddF64(a, b) ==
    IF a.kind = "nan" \/ b.kind = "nan" THEN NaN
    ELSE IF a.kind = "inf" /\ b.kind = "inf"
    THEN (IF a.neg = b.neg THEN a ELSE NaN)
    ELSE IF a.kind = "inf" THEN a
    ELSE IF b.kind = "inf" THEN b
    ELSE IF IsZero(a) /\ IsZero(b) THEN Zero(a.neg /\ b.neg)
    ELSE IF IsZero(a) THEN b
    ELSE IF IsZero(b) THEN a
    ELSE AddFin(a, b)

\* a - b
SubF64(a, b) == AddF64(a, Negated(b))

\* a * b
MulF64(a, b) ==
    IF a.kind = "nan" \/ b.kind = "nan" THEN NaN
    ELSE IF a.kind = "inf" \/ b.kind = "inf"
    THEN (IF IsZero(a) \/ IsZero(b) THEN NaN ELSE Inf(a.neg # b.neg))
    ELSE IF IsZero(a) \/ IsZero(b) THEN Zero(a.neg # b.neg)
    ELSE Round53(a.neg # b.neg, BMul(a.mant, b.mant), <<1>>, a.exp + b.exp)

\* a / b
DivF64(a, b) ==
    IF a.kind = "nan" \/ b.kind = "nan" THEN NaN
    ELSE IF a.kind = "inf"
    THEN (IF b.kind = "inf" THEN NaN ELSE Inf(a.neg # b.neg))
    ELSE IF b.kind = "inf" THEN Zero(a.neg # b.neg)
    ELSE IF IsZero(b)
    THEN (IF IsZero(a) THEN NaN ELSE Inf(a.neg # b.neg))
    ELSE IF IsZero(a) THEN Zero(a.neg # b.neg)
    ELSE Round53(a.neg # b.neg, a.mant, b.mant, a.exp - b.exp)

\* |a| rounded to a whole number, halves away from zero, for finite a.
RoundedMag(a) ==
    IF a.exp >= 0 THEN BShl(a.mant, a.exp)
    ELSE IF BBitLen(a.mant) + a.exp < 0 THEN <<>>
    ELSE BShr(BAdd(a.mant, BShl(<<1>>, -a.exp - 1)), -a.exp)

\* a.round() as i32: NaN is 0, a value beyond the i32 range the nearest end
\* of the range.
RoundI32(a) ==
    IF a.kind = "nan" \/ IsZero(a) THEN 0
    ELSE IF a.kind = "inf" \/ a.exp > 31 \/ BBitLen(RoundedMag(a)) > 31
    THEN (IF a.neg THEN -2147483647 - 1 ELSE 2147483647)
    ELSE Sign(a) * BToNat(RoundedMag(a))

\* a.round() as u64: NaN and the negative values are 0.  (A frame number
\* of 2^31 or more is beyond the integers of this notation.)
RoundU64(a) ==
    IF a.kind = "nan" \/ IsZero(a) \/ a.neg THEN 0
    ELSE BToNat(RoundedMag(a))

\* 16 * x is a whole number below 2^24: the values on which the sums,
\* differences and comparisons below are exact in f64 and in integers.
Small(x) ==
    /\ IsDec(x)
    /\ x.d <= 4
    /\ x.m % Pow5(x.d) = 0
    /\ Abs(x.m) < Pow5(x.d) * 1048576

\* 16 * x
Q16(x) == (x.m \div Pow5(x.d)) * Pow2(4 - x.d)

RECURSIVE StripDec(_, _)
StripDec(m, d) ==
    IF d > 0 /\ m % 10 = 0 THEN StripDec(m \div 10, d - 1)
    ELSE [m |-> m, d |-> d]

\* The value n / 16.
OfQ16(n) == StripDec(n * 625, 4)

\* Two decimals whose comparison by cross multiplication fits the integers.
\* (Rounding to f64 keeps the order of decimals of at most nine digits.)
Comparable(a, b) ==
    /\ IsDec(a) /\ IsDec(b)
    /\ a.d <= 9 /\ b.d <= 9
    /\ Abs(a.m) < Pow10(9 - b.d)
    /\ Abs(b.m) < Pow10(9 - a.d)

\* a <= b, a < b
NumLe(a, b) ==
    IF Comparable(a, b) THEN a.m * Pow10(b.d) <= b.m * Pow10(a.d)
    ELSE LeF64(ToF64(a), ToF64(b))
NumLt(a, b) ==
    IF Comparable(a, b) THEN a.m * Pow10(b.d) < b.m * Pow10(a.d)
    ELSE LtF64(ToF64(a), ToF64(b))

\* (v - p).abs()
AbsDiff(v, p) ==
    IF Small(v) /\ Small(p) THEN OfQ16(Abs(Q16(v) - Q16(p)))
    ELSE AbsF64(SubF64(ToF64(v), ToF64(p)))

\* (v - p).abs() <= md, (v - p).abs() < md and (v - p).abs() > md.
AbsDiffLe(v, p, md) == NumLe(AbsDiff(v, p), md)
AbsDiffLt(v, p, md) == NumLt(AbsDiff(v, p), md)
AbsDiffGt(v, p, md) == NumLt(md, AbsDiff(v, p))

\* ---------------------------------------------------------------- strings

Digits == {"0", "1", "2", "3", "4", "5", "6", "7", "8", "9"}
\* char::is_whitespace, the Unicode White_Space property that str::trim
\* tests: U+0009..U+000D, U+0020, U+0085, U+00A0, U+1680, U+2000..U+200A,
\* U+2028, U+2029, U+202F, U+205F and U+3000.  A character that cannot stand
\* in a string of this notation is the element "U+" followed by its code
\* point.
Whitespace ==
    { " ", "\n", "\t", "\r", "\f", "", "", " ", " ",
      "U+2000", "U+2001", "U+2002", "U+2003", "U+2004", "U+2005", "U+2006",
      "U+2007", "U+2008", "U+2009", "U+200A", "U+2028", "U+2029", "U+202F",
      "U+205F", "U+3000" }

DigitVal(c) ==
    CASE c = "0" -> 0 [] c = "1" -> 1 [] c = "2" -> 2 [] c = "3" -> 3
      [] c = "4" -> 4 [] c = "5" -> 5 [] c = "6" -> 6 [] c = "7" -> 7
      [] c = "8" -> 8 [] c = "9" -> 9

IsDigit(c) == c \in Digits

\* The text before the first line feed (all of it when there is none).
RECURSIVE BeforeLineFeed(_)
BeforeLineFeed(t) ==
    IF t = <<>> \/ Head(t) = "\n" THEN <<>>
    ELSE <<Head(t)>> \o BeforeLineFeed(Tail(t))

\* text.lines().next().unwrap_or(""): str::lines ends a line at a line feed
\* and drops one carriage return that stands right before that line feed; a
\* carriage return at the end of a text without line feed stays.
FirstLine(t) ==
    LET l == BeforeLineFeed(t)
    IN  IF Len(l) < Len(t) /\ l # <<>> /\ l[Len(l)] = "\r"
        THEN SubSeq(l, 1, Len(l) - 1) ELSE l

RECURSIVE TrimStart(_)
TrimStart(t) ==
    IF t # <<>> /\ Head(t) \in Whitespace THEN TrimStart(Tail(t)) ELSE t

RECURSIVE TrimEnd(_)
TrimEnd(t) ==
    IF t # <<>> /\ t[Len(t)] \in Whitespace
    THEN TrimEnd(SubSeq(t, 1, Len(t) - 1)) ELSE t

\* str::trim
Trim(t) == TrimEnd(TrimStart(t))

\* The first index j >= i of s that holds no ASCII digit (Len(s)+1 if none):
\* while i < bytes.len() && bytes[i].is_ascii_digit() { i += 1 }
RECURSIVE SkipDigits(_, _)
SkipDigits(s, i) ==
    IF i <= Len(s) /\ IsDigit(s[i]) THEN SkipDigits(s, i + 1) ELSE i

CommaToPoint(c) == IF c = "," THEN "." ELSE c
NotApostrophe(c) == c # "'"
FixConfusion(c) ==
    CASE c = "O" -> "0"
      [] c \in {"l", "I"} -> "1"
      [] c = "S" -> "5"
      [] OTHER -> c
NotDegreeOrSpace(c) == c # "°" /\ c # " "

\* comma -> decimal point; strip apostrophe thousands-separators
FixSeparators(line) ==
    SelectSeq([i \in 1..Len(line) |-> CommaToPoint(line[i])], NotApostrophe)

\* Common OCR letter/digit confusions
FixConfusions(s) == [i \in 1..Len(s) |-> FixConfusion(s[i])]

\* Strip degree symbols and spaces
StripDegreeAndSpace(s) == SelectSeq(s, NotDegreeOrSpace)

\* The first index i0 >= i of s that holds a minus or a digit, 0 if none:
\* the outer while loop of clean_number.
RECURSIVE TokenStart(_, _)
TokenStart(s, i) ==
    IF i > Len(s) THEN 0
    ELSE IF s[i] = "-" \/ IsDigit(s[i]) THEN i
    ELSE TokenStart(s, i + 1)

\* if i < bytes.len() && bytes[i] == b'.' { i += 1; while digit { i += 1 } }
SkipFraction(s, i) ==
    IF i <= Len(s) /\ s[i] = "." THEN SkipDigits(s, i + 1) ELSE i

\* One past the end of the token that starts at start.
TokenEnd(s, start) ==
    SkipFraction(s, SkipDigits(s, IF s[start] = "-" THEN start + 1
                                  ELSE start))

TokenAt(s, start) ==
    IF start = 0 THEN <<>> ELSE SubSeq(s, start, TokenEnd(s, start) - 1)

\* The first number-like token of s: optional minus, digits, optional
\* decimal point and digits; "" when s holds neither a minus nor a digit.
FirstToken(s) == TokenAt(s, TokenStart(s, 1))

\* Normalise raw OCR output to a clean number string.
clean_number(text) ==
    FirstToken(StripDegreeAndSpace(FixConfusions(FixSeparators(
        Trim(FirstLine(text))))))

RECURSIVE DigitsToInt(_)
DigitsToInt(s) ==
    IF s = <<>> THEN 0
    ELSE 10 * DigitsToInt(SubSeq(s, 1, Len(s) - 1)) + DigitVal(s[Len(s)])

\* The number a sequence of decimal digits stands for, of any size.
RECURSIVE BFromDigits(_)
BFromDigits(ds) ==
    IF Len(ds) <= 4 THEN BFromNat(DigitsToInt(ds))
    ELSE BAdd(BMul(BFromDigits(SubSeq(ds, 1, Len(ds) \div 2)),
                   BPow10(Len(ds) - Len(ds) \div 2)),
              BFromDigits(SubSeq(ds, Len(ds) \div 2 + 1, Len(ds))))

RECURSIVE StripLeadingZeros(_)
StripLeadingZeros(ds) ==
    IF ds # <<>> /\ Head(ds) = "0" THEN StripLeadingZeros(Tail(ds)) ELSE ds

\* The f64 nearest to (-1)^neg * ds * 10^e10, for digits ds without leading
\* zero: a decimal of at most nine digits where there is one.
TimesPow10(neg, ds, e10) ==
    IF ds = <<>> THEN F(0)
    ELSE IF Len(ds) <= 9 /\ e10 >= 0 /\ Len(ds) + e10 <= 9
    THEN [m |-> (IF neg THEN -1 ELSE 1) * DigitsToInt(ds) * Pow10(e10),
          d |-> 0]
    ELSE IF Len(ds) <= 9 /\ e10 < 0 /\ e10 >= -9
    THEN [m |-> (IF neg THEN -1 ELSE 1) * DigitsToInt(ds), d |-> -e10]
    ELSE IF Len(ds) + e10 > 310 THEN Inf(neg)
    ELSE IF Len(ds) + e10 < -330 THEN Zero(neg)
    ELSE Round53(neg, BMul(BFromDigits(ds), BPow10(Max(e10, 0))),
                 BPow10(Max(-e10, 0)), 0)

\* The value of the digits ds with d of them after the point, times 10^x.
\* Without exponent the digits stay as they are written.  (The sign of a
\* zero is not kept.)
DecimalValue(neg, ds, d, x) ==
    IF x = 0 /\ Len(StripLeadingZeros(ds)) <= 9 /\ d <= 9
    THEN [m |-> (IF neg THEN -1 ELSE 1) * DigitsToInt(StripLeadingZeros(ds)),
          d |-> d]
    ELSE TimesPow10(neg, StripLeadingZeros(ds), x - d)

\* The exponent the digits ds stand for; one of more than five digits
\* saturates.
ExpValue(ds) ==
    IF Len(StripLeadingZeros(ds)) > 5 THEN 100000
    ELSE DigitsToInt(StripLeadingZeros(ds))

\* The exponent of a number that goes on at i3: 0 at the end of the text,
\* e or E with an optional sign and at least one digit up to the end of the
\* text otherwise; None for anything else.
ExpFrom(body, j) ==
    IF j <= Len(body) /\ SkipDigits(body, j) = Len(body) + 1
    THEN Some(ExpValue(SubSeq(body, j, Len(body))))
    ELSE None

Exponent(body, i3) ==
    IF i3 = Len(body) + 1 THEN Some(0)
    ELSE IF body[i3] \notin {"e", "E"} THEN None
    ELSE IF i3 < Len(body) /\ body[i3 + 1] = "-"
    THEN (IF ExpFrom(body, i3 + 2) = None THEN None
          ELSE Some(-Unwrap(ExpFrom(body, i3 + 2))))
    ELSE ExpFrom(body, IF i3 < Len(body) /\ body[i3 + 1] = "+" THEN i3 + 2
                       ELSE i3 + 1)

\* The digits of body[1..i2-1] and body[i2+1..i3-1] as a number, when body
\* holds a digit and an exponent at most after them.
ParseParts(body, neg, i2, i3) ==
    IF i3 - 1 - (IF i3 > i2 THEN 1 ELSE 0) > 0 /\ Exponent(body, i3) # None
    THEN Some(DecimalValue(neg,
                           SubSeq(body, 1, i2 - 1)
                               \o SubSeq(body, i2 + 1, i3 - 1),
                           IF i3 > i2 THEN i3 - i2 - 1 ELSE 0,
                           Unwrap(Exponent(body, i3))))
    ELSE None

LowerCase(c) ==
    CASE c = "I" -> "i" [] c = "N" -> "n" [] c = "F" -> "f"
      [] c = "T" -> "t" [] c = "Y" -> "y" [] c = "A" -> "a"
      [] OTHER -> c

\* "inf", "infinity" and "nan" in any case, or a number.
ParseBody(body, neg, i2) ==
    LET low == [i \in 1..Len(body) |-> LowerCase(body[i])]
    IN  IF low = <<"i", "n", "f">>
           \/ low = <<"i", "n", "f", "i", "n", "i", "t", "y">>
        THEN Some(Inf(neg))
        ELSE IF low = <<"n", "a", "n">> THEN Some(NaN)
        ELSE ParseParts(body, neg, i2, SkipFraction(body, i2))

\* str::parse::<f64>(): an optional sign, then "inf", "infinity" or "nan",
\* or digits with at most one decimal point, at least one digit and an
\* optional exponent.
ParseF64(s) ==
    IF s # <<>> /\ s[1] \in {"-", "+"}
    THEN ParseBody(Tail(s), s[1] = "-", SkipDigits(Tail(s), 1))
    ELSE ParseBody(s, FALSE, SkipDigits(s, 1))

\* s.find('.'): the index of the first point from i on, 0 if none.
RECURSIVE FindPoint(_, _)
FindPoint(s, i) ==
    IF i > Len(s) THEN 0
    ELSE IF s[i] = "." THEN i ELSE FindPoint(s, i + 1)

DecimalsAfter(s, pos) == IF pos = 0 THEN 0 ELSE Len(s) - pos

\* Number of digits after the decimal point ("3.14" -> 2, "42" -> 0).
count_decimal_places(s) == DecimalsAfter(s, FindPoint(s, 1))

\* Total count of ASCII digit characters.
count_total_digits(s) == Cardinality({i \in 1..Len(s) : IsDigit(s[i])})

\* ------------------------------------------------------ validation scoring

\* 1.0 as a validation score. Every product of the penalties 0.4 (2/5),
\* 0.65 (13/20), 0.5 (1/2) and the score 0.1 are whole numbers over it.
ScoreOne == (5 * 5) * (20 * 20) * 2

\* score *= num/den
Mul(score, num, den) == (score * num) \div den

\* let in_range = exp.min.map_or(true, |m| v >= m)
\*             && exp.max.map_or(true, |m| v <= m);
MutInRangeNoMax(v, exp) == exp.min = None \/ NumLe(Unwrap(exp.min), v)

in_range(v, exp) ==
    /\ (exp.min = None \/ NumLe(Unwrap(exp.min), v))
    /\ (exp.max = None \/ NumLe(v, Unwrap(exp.max)))

\* match (exp.max_deviation, prev_value) {
\*     (Some(md), Some(pv)) if md > 0.0 => (v - pv).abs() <= md, _ => true }
MutOkDeviationStrict(v, exp, prev_value) ==
    IF /\ exp.max_deviation # None
       /\ prev_value # None
       /\ NumLt(F(0), Unwrap(exp.max_deviation))
    THEN AbsDiffLt(v, Unwrap(prev_value), Unwrap(exp.max_deviation))
    ELSE TRUE

ok_deviation(v, exp, prev_value) ==
    IF /\ exp.max_deviation # None
       /\ prev_value # None
       /\ NumLt(F(0), Unwrap(exp.max_deviation))
    THEN AbsDiffLe(v, Unwrap(prev_value), Unwrap(exp.max_deviation))
    ELSE TRUE

\* let Ok(v) = cleaned.parse::<f64>() else { return false };
\* in_range && ok_deviation
PassesParsed(parsed, exp, prev_value) ==
    IF parsed = None THEN FALSE
    ELSE /\ in_range(Unwrap(parsed), exp)
         /\ ok_deviation(Unwrap(parsed), exp, prev_value)

\* Returns TRUE when text satisfies the hard constraints in exp
\* (min/max range, max_deviation from prev_value).
\* Non-numeric results always fail when exp.numeric is set.
passes_hard_constraints(text, exp, prev_value) ==
    IF ~exp.numeric THEN TRUE
    ELSE PassesParsed(ParseF64(clean_number(text)), exp, prev_value)

\* return 0.1: the score of a text that does not parse as a number.
MutUnparsedZero == Mul(ScoreOne, 0, 10)

UnparsedScore == Mul(ScoreOne, 1, 10)

\* Out-of-range: strong penalty (0.4x) for each violated bound.
RangePenalty(score, value, exp) ==
    Mul(Mul(score,
            IF exp.min # None /\ NumLt(value, Unwrap(exp.min)) THEN 2 ELSE 5,
            5),
        IF exp.max # None /\ NumLt(Unwrap(exp.max), value) THEN 2 ELSE 5,
        5)

\* Wrong decimal-place count: moderate penalty (0.65x).
DecimalPlacesPenalty(score, cleaned, exp) ==
    IF /\ exp.decimal_places # None
       /\ count_decimal_places(cleaned) # Unwrap(exp.decimal_places)
    THEN Mul(score, 13, 20) ELSE score

\* Wrong total digit count: moderate penalty (0.65x).
MutDigitPenaltyOff(score, cleaned, exp) == score

TotalDigitsPenalty(score, cleaned, exp) ==
    IF /\ exp.total_digits # None
       /\ count_total_digits(cleaned) # Unwrap(exp.total_digits)
    THEN Mul(score, 13, 20) ELSE score

\* Deviation from previous value too large: medium penalty (0.5x).
DeviationPenalty(score, value, exp, prev_value) ==
    IF /\ exp.max_deviation # None
       /\ prev_value # None
       /\ NumLt(F(0), Unwrap(exp.max_deviation))
       /\ AbsDiffGt(value, Unwrap(prev_value), Unwrap(exp.max_deviation))
    THEN Mul(score, 1, 2) ELSE score

\* The penalties of a cleaned text that parsed as value, stacked on 1.0.
ScoreParsed(cleaned, value, exp, prev_value) ==
    DeviationPenalty(
        TotalDigitsPenalty(
            DecimalPlacesPenalty(RangePenalty(ScoreOne, value, exp),
                                 cleaned, exp),
            cleaned, exp),
        value, exp, prev_value)

ScoreCleaned(cleaned, parsed, exp, prev_value) ==
    IF parsed = None THEN UnparsedScore
    ELSE ScoreParsed(cleaned, Unwrap(parsed), exp, prev_value)

ScoreNumeric(cleaned, exp, prev_value) ==
    ScoreCleaned(cleaned, ParseF64(cleaned), exp, prev_value)

\* if !exp.numeric { return 1.0; }
MutScoreIgnoresNumeric(text, exp, prev_value) ==
    ScoreNumeric(clean_number(text), exp, prev_value)

\* Returns a multiplier (over ScoreOne) that scales down confidence when the
\* OCR text violates the region's content expectations.
validation_score(text, exp, prev_value) ==
    IF ~exp.numeric THEN ScoreOne
    ELSE ScoreNumeric(clean_number(text), exp, prev_value)

\* ---------------------------------------------------------------- results

\* OcrResult: what one Recognizer produces for one crop.
OcrResult(text, confidence, engine) ==
    [text |-> text, confidence |-> confidence,
     preview_b64 |-> "png", engine_name |-> engine]

\* (value, confidence, raw_text, preview_b64, engine_name), all empty.
EmptyReading ==
    [value |-> <<>>, confidence |-> 0, raw_text |-> <<>>,
     preview_b64 |-> "", engine_name |-> ""]

make_result(r, filter_numeric) ==
    [value |-> IF filter_numeric THEN clean_number(r.text) ELSE Trim(r.text),
     confidence |-> r.confidence,
     raw_text |-> Trim(r.text),
     preview_b64 |-> r.preview_b64,
     engine_name |-> r.engine_name]

\* One step of Iterator::max_by's fold over the pool: the accumulator is
\* kept only when it compares Greater, so of equal maxima the last wins.
MutMaxByFirstWins(acc, y, sc) == IF sc[acc] >= sc[y] THEN acc ELSE y

MaxByStep(acc, y, sc) == IF sc[acc] > sc[y] THEN acc ELSE y

RECURSIVE MaxByFold(_, _, _, _)
MaxByFold(pool, sc, k, acc) ==
    IF k > Len(pool) THEN acc
    ELSE MaxByFold(pool, sc, k + 1, MaxByStep(acc, pool[k], sc))

\* pool.iter().max_by(|a, b| score(a).partial_cmp(&score(b))): the index
\* of pool that wins, None for an empty pool. sc maps an index to its score.
max_by(pool, sc) ==
    IF pool = <<>> THEN None ELSE Some(MaxByFold(pool, sc, 2, pool[1]))

\* r.confidence * validation_score, over ConfSteps * ScoreOne.
MutScoreConfidenceOnly(r, expectation, prev_value) == r.confidence * ScoreOne

Score(r, expectation, prev_value) ==
    r.confidence * (IF expectation = None THEN ScoreOne
                    ELSE validation_score(r.text, Unwrap(expectation),
                                          prev_value))

IsNumericText(text) == ParseF64(clean_number(text)) # None

Indices(results) == [i \in 1..Len(results) |-> i]

\* The indices of idx whose candidate parses as a number, in order.
numeric_indices(results, idx) ==
    LET Numeric(i) == IsNumericText(results[i].text)
    IN  SelectSeq(idx, Numeric)

\* Numeric-parseable candidates beat the others when filter_numeric is set.
NumericPool(idx, numeric, filter_numeric) ==
    IF filter_numeric /\ numeric # <<>> THEN numeric ELSE idx

\* The candidate of results that wins among the indices idx.
BestOf(results, idx, filter_numeric, expectation, prev_value) ==
    results[Unwrap(max_by(
        NumericPool(idx, numeric_indices(results, idx), filter_numeric),
        [i \in 1..Len(results) |->
            Score(results[i], expectation, prev_value)]))]

\* Select the best OcrResult from a slice.
best_result(results, filter_numeric, expectation, prev_value) ==
    IF results = <<>> THEN None
    ELSE Some(BestOf(results, Indices(results), filter_numeric, expectation,
                     prev_value))

\* The candidates of results that pass the hard constraints, in order.
valid_indices(results, exp, prev_value) ==
    LET Valid(i) == passes_hard_constraints(results[i].text, exp, prev_value)
    IN  SelectSeq(Indices(results), Valid)

\* if valid_indices.is_empty() { return None; }
MutBestValidFallsBack(results, valid, filter_numeric, expectation, prev_value) ==
    IF valid = <<>>
    THEN best_result(results, filter_numeric, expectation, prev_value)
    ELSE Some(BestOf(results, valid, filter_numeric, expectation,
                     prev_value))

BestValid(results, valid, filter_numeric, expectation, prev_value) ==
    IF valid = <<>> THEN None
    ELSE Some(BestOf(results, valid, filter_numeric, expectation,
                     prev_value))

\* Like best_result but restricted to candidates that pass hard constraints;
\* None when no candidate satisfies them.
best_result_constrained(results, filter_numeric, expectation, prev_value) ==
    IF expectation = None
    THEN best_result(results, filter_numeric, expectation, prev_value)
    ELSE BestValid(results,
                   valid_indices(results, Unwrap(expectation), prev_value),
                   filter_numeric, expectation, prev_value)

\* ---------------------------------------------------- region interpolation

\* a - b
Sub(a, b) ==
    IF Small(a) /\ Small(b) THEN OfQ16(Q16(a) - Q16(b))
    ELSE SubF64(ToF64(a), ToF64(b))

\* x / y has a whole number of sixteenths below 2^20.
SmallQuotient(x, y) ==
    /\ Small(x) /\ Small(y)
    /\ Q16(y) # 0
    /\ (16 * Abs(Q16(x))) % Abs(Q16(y)) = 0
    /\ (16 * Abs(Q16(x))) \div Abs(Q16(y)) < 1048576

\* x / y
Div(x, y) ==
    IF SmallQuotient(x, y)
    THEN OfQ16((IF (Q16(x) < 0) = (Q16(y) < 0) THEN 1 ELSE -1)
               * ((16 * Abs(Q16(x))) \div Abs(Q16(y))))
    ELSE DivF64(ToF64(x), ToF64(y))

I32Max == 2147483647
I32Min == -I32Max - 1

\* f64::round: p/q rounded to the nearest integer, halves away from zero.
RoundPos(p, q) ==
    IF p >= 0 THEN (2 * p + q) \div (2 * q)
    ELSE -((q - 2 * p) \div (2 * q))
Round(p, q) == IF q < 0 THEN RoundPos(-p, -q) ELSE RoundPos(p, q)

\* Coordinates and a factor on which a + (b - a) * t is exact in f64 and in
\* integers: a and b below 2^15, t a whole number of sixteenths up to 64.
SmallLerp(a, b, t) ==
    Abs(a) < 32768 /\ Abs(b) < 32768 /\ Small(t) /\ Abs(Q16(t)) <= 1024

\* (a as f64 + (b as f64 - a as f64) * t).round() as i32 in f64 arithmetic:
\* a NaN casts to 0, a value beyond the i32 range to the end of the range.
LerpF64(a, b, t) ==
    RoundI32(AddF64(IntToF64(a),
                    MulF64(SubF64(IntToF64(b), IntToF64(a)), ToF64(t))))

\* (a as f64 + (b as f64 - a as f64) * t).round() as i32
MutLerpTruncates(a, b, t) ==
    IF SmallLerp(a, b, t) THEN a + ((b - a) * Q16(t)) \div 16
    ELSE LerpF64(a, b, t)

lerp_i32(a, b, t) ==
    IF SmallLerp(a, b, t) THEN Round(16 * a + (b - a) * Q16(t), 16)
    ELSE LerpF64(a, b, t)

lerp_region(a, b, t) ==
    [name |-> a.name,
     x |-> lerp_i32(a.x, b.x, t),
     y |-> lerp_i32(a.y, b.y, t),
     width |-> lerp_i32(a.width, b.width, t),
     height |-> lerp_i32(a.height, b.height, t)]

\* The set of indices of regions that hold the name.
Named(regions, name) == {i \in 1..Len(regions) : regions[i].name = name}

\* a_map.contains_key(name)
contains_key(regions, name) == Named(regions, name) # {}

\* b_map.get(name): collecting into the HashMap keeps the last region
\* of a name.
MapGet(regions, name) ==
    regions[CHOOSE i \in Named(regions, name) :
                \A j \in Named(regions, name) : j <= i]

\* b_map.get(ra.name.as_str()).copied().unwrap_or(ra)
Partner(ra, b) ==
    IF contains_key(b.regions, ra.name) THEN MapGet(b.regions, ra.name)
    ELSE ra

\* The regions of b whose name is not in a, in b's order.
MutNoAddedRegions(a, b) == <<>>

OnlyInB(a, b) ==
    LET Added(rb) == ~contains_key(a.regions, rb.name)
    IN  SelectSeq(b.regions, Added)

\* Interpolate all regions between two keyframes.
interpolate_keyframes(a, b, t) ==
    [i \in 1..Len(a.regions) |->
        lerp_region(a.regions[i], Partner(a.regions[i], b), t)]
    \o OnlyInB(a, b)

\* if ts <= kfs[0].timestamp
MutClampLowStrict(ts, kfs) == NumLt(ts, kfs[1].timestamp)

clamp_low(ts, kfs) == NumLe(ts, kfs[1].timestamp)

\* if ts >= kfs[kfs.len() - 1].timestamp
MutClampHighNever(ts, kfs) == FALSE

clamp_high(ts, kfs) == NumLe(kfs[Len(kfs)].timestamp, ts)

\* a.timestamp <= ts && ts <= b.timestamp
Brackets(kfs, i, ts) ==
    NumLe(kfs[i].timestamp, ts) /\ NumLe(ts, kfs[i + 1].timestamp)

\* The first i from k on with kfs[i], kfs[i + 1] around ts, 0 if none:
\* for i in 0..kfs.len() - 1 { if ... { return ... } }
RECURSIVE BracketFrom(_, _, _)
BracketFrom(kfs, ts, k) ==
    IF k >= Len(kfs) THEN 0
    ELSE IF Brackets(kfs, k, ts) THEN k
    ELSE BracketFrom(kfs, ts, k + 1)

\* The pair the loop returns from: the first one around ts.
MutBracketSkipsFirst(kfs, ts) == BracketFrom(kfs, ts, 2)

first_bracket(kfs, ts) == BracketFrom(kfs, ts, 1)

\* let t = (ts - a.timestamp) / (b.timestamp - a.timestamp);
MutFactorFromZero(a, b, ts) == Div(ts, Sub(b.timestamp, a.timestamp))

Factor(a, b, ts) ==
    CHOOSE t \in {Div(x, y) : x \in {Sub(ts, a.timestamp)},
                             y \in {Sub(b.timestamp, a.timestamp)}} : TRUE

\* The interpolation factor get_regions_at computes, None when it returns
\* without interpolating.
FactorAt(kfs, ts, i) ==
    IF i = 0 THEN None ELSE Some(Factor(kfs[i], kfs[i + 1], ts))

factor_used(kfs, ts) ==
    IF kfs = <<>> THEN None
    ELSE IF clamp_low(ts, kfs) \/ clamp_high(ts, kfs) THEN None
    ELSE FactorAt(kfs, ts, first_bracket(kfs, ts))

\* The factor is computed once and handed to interpolate_keyframes.
InterpolatedAt(kfs, ts, i) ==
    IF i = 0 THEN <<>>
    ELSE CHOOSE rs \in {interpolate_keyframes(kfs[i], kfs[i + 1], t) :
                            t \in {Factor(kfs[i], kfs[i + 1], ts)}} : TRUE

\* Linearly interpolate region positions at the given timestamp.
get_regions_at(kfs, ts) ==
    IF kfs = <<>> THEN <<>>
    ELSE IF clamp_low(ts, kfs) THEN kfs[1].regions
    ELSE IF clamp_high(ts, kfs) THEN kfs[Len(kfs)].regions
    ELSE InterpolatedAt(kfs, ts, first_bracket(kfs, ts))

\* ------------------------------------------------------------------ state

VARIABLES
    \* read_region's arguments
    region,            \* the Region extract passes (i32 fields)
    frame_width, frame_height,
    priority, fallback,    \* the engine lists, by engine name
    fast_threshold,    \* over ConfSteps
    expectation,       \* Option<RegionExpectation>
    prev_value,        \* Option<f64>
    stub,              \* what a stub Recognizer may return: {<<text, conf>>}
    \* read_region's locals
    pc,                \* "idle", "entry", "priority", "fallback", "done"
    crop,              \* Option<the clamped rectangle>
    p_calls, f_calls,  \* per engine, the crops recognize was called with
    p_ret, f_ret,      \* per engine, what recognize returned
    priority_results,  \* Vec<OcrResult>
    fallback_results,  \* Vec<OcrResult>
    ret,               \* Option<the returned tuple>
    \* the scoring functions applied to one candidate
    s_text, s_exp, s_prev,
    s_done,            \* whether the functions have been applied
    s_score,           \* validation_score, over ScoreOne
    s_eligible,        \* passes_hard_constraints
    \* get_regions_at applied to one timestamp
    keyframes,         \* RegionConfig.keyframes
    ts,                \* the timestamp asked for
    i_done,            \* whether get_regions_at has returned
    regions_at,        \* the Vec<Region> it returned
    t_used,            \* Option<the interpolation factor t it computed>
    \* extract
    x_pc,              \* "idle", "start", "engines", "loop", "decode",
                       \* "fanout", "done", "failed"
    x_priority, x_fallback,    \* the engine lists extract built, by name
    fps, fps_sample,   \* info.fps, params.fps_sample
    cancel_flag,       \* CancelFlag
    first_frame, last_frame, frame_num, elapsed,
    frame_regions,     \* regions: those of the frame being processed
    outcomes,          \* per region, Option<what its task received and made>
    prev_values,       \* HashMap<String, f64>
    frame_prev,        \* prev_values when the frame's tasks were started
    measurements,      \* Vec<Measurement>
    events,            \* flag loads, decodes, progress events, cancels
    result,            \* Option<what extract returned>
    \* Recognizer::recognize of one engine
    r_engine,          \* its name
    r_backend,         \* what the backend put out
    r_done,            \* whether recognize has returned
    r_ret,             \* Option<OcrResult>
    \* clean_number applied to one text
    c_text, c_done, c_ret,
    \* tile_mapping of one CLAHE tile
    h_pc,              \* "idle", "histogram", "clip", "redistribute",
                       \* "mapping", "done"
    h_img,             \* img
    h_tx, h_ty,        \* tx, ty
    h_size, h_factor,  \* tile_size, clip_limit_factor
    h_raw,             \* hist as the histogram loop left it
    hist,              \* [u64; 256]
    excess,            \* u64
    mapping            \* [u8; 256]

args == <<region, frame_width, frame_height, priority, fallback,
          fast_threshold, expectation, prev_value, stub>>
locals == <<pc, crop, p_calls, f_calls, p_ret, f_ret, priority_results,
            fallback_results, ret>>
scoring == <<s_text, s_exp, s_prev, s_done, s_score, s_eligible>>
interp == <<keyframes, ts, i_done, regions_at, t_used>>
frames == <<x_pc, x_priority, x_fallback, fps, fps_sample, cancel_flag, first_frame, last_frame,
            frame_num, elapsed, frame_regions, outcomes, prev_values,
            frame_prev, measurements, events, result>>
recog == <<r_engine, r_backend, r_done, r_ret>>
cleaning == <<c_text, c_done, c_ret>>
equalize == <<h_pc, h_img, h_tx, h_ty, h_size, h_factor, h_raw, hist, excess,
              mapping>>
others == <<interp, frames, recog, cleaning, equalize>>
vars == <<args, locals, scoring, others>>

\* ----------------------------------------------------------------- inputs

Expectation(n, mn, mx, dp, td, md) ==
    [numeric |-> n, min |-> mn, max |-> mx, decimal_places |-> dp,
     total_digits |-> td, max_deviation |-> md]

Region(x, y, width, height) ==
    [name |-> "gauge", x |-> x, y |-> y, width |-> width, height |-> height]

\* The priority list extract builds: oar-ocr in both colour modes when a
\* candidate directory holds both model files and the pipeline is built
\* from them, else none.
priority_engines(found, built) ==
    IF found /\ built THEN <<"oar-ocr/rgb", "oar-ocr/gray">> ELSE <<>>

\* The fallback list extract builds: five preprocessed Tesseract variants
\* when params.preprocess is set, else the raw grayscale one, and raw RGB
\* in either case.
fallback_engines(preprocess) ==
    (IF preprocess
     THEN <<"tesseract/binary", "tesseract/gray", "tesseract/channel-r",
            "tesseract/channel-g", "tesseract/channel-b">>
     ELSE <<"tesseract/raw-gray">>)
    \o <<"tesseract/rgb">>

\* The lists read_region is run on: either priority list, the fallback
\* list without preprocessing.
PriorityLists == {priority_engines(f, b) : f \in BOOLEAN, b \in BOOLEAN}
FallbackList == fallback_engines(FALSE)

\* Candidate texts of the fusion runs: "4.S" cleans to 4.5 (one decimal
\* place, two digits), "150" is out of the range [0, 100] (no decimal
\* place, three digits), " x" is not a number.
CandTexts == {<<"4", ".", "S">>, <<"1", "5", "0">>, <<" ", "x">>}

OptRange == {<<None, None>>, <<Some(F(0)), Some(F(100))>>}
OptShape == {<<None, None>>, <<Some(0), Some(3)>>}

\* Expectations with no deviation limit, and those with one.
FusionExpectations ==
    {None, Some(Expectation(FALSE, Some(F(0)), Some(F(100)), Some(0),
                            Some(3), Some(F(5))))}
    \cup {Some(Expectation(TRUE, r[1], r[2], sh[1], sh[2], None)) :
            r \in OptRange, sh \in OptShape}
DeviationExpectations ==
    {Some(Expectation(TRUE, r[1], r[2], sh[1], sh[2], Some(F(5)))) :
        r \in OptRange, sh \in OptShape}

\* <<expectation, prev_value>> of the fusion runs.
FusionInputs ==
    (FusionExpectations \X {None})
    \cup (DeviationExpectations \X {None, Some(F(5))})

\* Texts the scoring functions are applied to.
ScoreTexts ==
    { <<>>, <<"x">>, <<"-">>, <<"-", ".">>, <<"0">>, <<"-", "1">>,
      <<"5", ".">>, <<"-", ".", "5">>, <<"1", "5">>, <<"2", "0">>,
      <<"2", "5">>, <<"2", "5", ".", "5">>, <<"1", "4", ".", "5">>,
      <<"2", "1", ".", "0">>, <<"4", "0", ".", "0">>, <<"1", "0", "0">>,
      <<"1", "0", "0", ".", "5">>, <<"1", "5", "0">>, <<"4", "S">>,
      <<"1", "'", "2", "3", "4", ",", "5", "6">>, <<" ", "2", "O", "°">>,
      <<"a", "-", "b", "1">>, <<"\n", "7">>, <<"9", "9", "\n", "x">> }

ScoreExpectations ==
    {Expectation(n, mn, mx, dp, td, md) :
        n \in BOOLEAN,
        mn \in {None, Some(F(0)), Some(F(100))},
        mx \in {None, Some(F(0)), Some(F(100))},
        dp \in {None, Some(0), Some(1)},
        td \in {None, Some(2), Some(3)},
        md \in {None, Some(F(0)), Some(F(5))}}

ScorePrevs == {None, Some(F(20)), Some([m |-> 205, d |-> 1])}

\* ------------------------------------------------------------ read_region


\* region.x.max(0) as u32, ... : the rectangle extract passes.
arg_x == Max(region.x, 0)
arg_y == Max(region.y, 0)
arg_w == Max(region.width, 0)
arg_h == Max(region.height, 0)

\* let filter_numeric = expectation.map_or(false, |e| e.numeric);
filter_numeric == IF expectation = None THEN FALSE
                  ELSE Unwrap(expectation).numeric

\* let x2 = (x + w).min(frame_width); let y2 = (y + h).min(frame_height);
\* (x and w come from i32 values, so the u32 sum does not wrap.)
clamp_x2 == Min(arg_x + arg_w, frame_width)
clamp_y2 == Min(arg_y + arg_h, frame_height)

\* if x2 <= x || y2 <= y
MutRectEmptyStrict(x, y, x2, y2) == x2 < x \/ y2 < y

rect_is_empty(x, y, x2, y2) == x2 <= x \/ y2 <= y

\* par_iter().filter_map(|e| e.recognize(&crop_dyn)).collect(): the results
\* that are present, in engine order.
MutCollectStopsAtNone(rets) ==
    LET missing == {i \in 1..Len(rets) : rets[i] = None} \cup {Len(rets) + 1}
        k == CHOOSE i \in missing : \A j \in missing : i <= j
    IN  [i \in 1..k - 1 |-> Unwrap(rets[i])]

RECURSIVE Collect(_)
Collect(rets) ==
    IF rets = <<>> THEN <<>>
    ELSE (IF Head(rets) = None THEN <<>> ELSE <<Unwrap(Head(rets))>>)
         \o Collect(Tail(rets))

\* What recognize of a stub engine may return.
Recognize(engine) ==
    {None} \cup {Some(OcrResult(o[1], o[2], engine)) : o \in stub}

\* eff_conf >= fast_threshold && numeric_ok, for the best priority result.
MutFastPathIgnoresThreshold(best) ==
    ~filter_numeric \/ IsNumericText(best.text)

MutFastPathNever(best) == FALSE

fast_path(best) ==
    /\ Score(best, expectation, prev_value) >= fast_threshold * ScoreOne
    /\ (~filter_numeric \/ IsNumericText(best.text))

\* Some(w) => make_result(w.clone(), filter_numeric), None => all empty
Reading(best) ==
    IF best = None THEN EmptyReading
    ELSE make_result(Unwrap(best), filter_numeric)

\* Clamp the rectangle; an empty one returns the empty reading at once.
Entry ==
    /\ pc = "entry"
    /\ IF rect_is_empty(arg_x, arg_y, clamp_x2, clamp_y2)
       THEN /\ ret' = Some(EmptyReading)
            /\ pc' = "done"
            /\ crop' = crop
       ELSE /\ crop' = Some([x |-> arg_x, y |-> arg_y,
                             w |-> clamp_x2 - arg_x, h |-> clamp_y2 - arg_y])
            /\ pc' = "priority"
            /\ ret' = ret
    /\ UNCHANGED <<args, p_calls, f_calls, p_ret, f_ret, priority_results,
                   fallback_results, scoring, others>>

\* Step 1: one priority engine recognizes the crop (the engines run in
\* parallel, in any order, each once).
RecognizePriority ==
    /\ pc = "priority"
    /\ \E i \in 1..Len(priority) :
         /\ p_calls[i] = <<>>
         /\ \E o \in Recognize(priority[i]) :
              /\ p_calls' = [p_calls EXCEPT ![i] = Append(@, Unwrap(crop))]
              /\ p_ret' = [p_ret EXCEPT ![i] = o]
    /\ UNCHANGED <<args, pc, crop, f_calls, f_ret, priority_results,
                   fallback_results, ret, scoring, others>>

\* if let Some(best) = ... { if eff_conf >= fast_threshold && numeric_ok
\* { return make_result(best.clone(), filter_numeric) } }
FastPathOutcome(best) ==
    IF best # None /\ fast_path(Unwrap(best))
    THEN /\ ret' = Some(make_result(Unwrap(best), filter_numeric))
         /\ pc' = "done"
    ELSE /\ ret' = ret
         /\ pc' = "fallback"

\* The priority tier has joined: return its best result when it is
\* confident enough, else go on to the fallback tier.
FastPath ==
    /\ pc = "priority"
    /\ \A i \in 1..Len(priority) : p_calls[i] # <<>>
    /\ priority_results' = Collect(p_ret)
    /\ FastPathOutcome(best_result_constrained(
           Collect(p_ret), filter_numeric, expectation, prev_value))
    /\ UNCHANGED <<args, crop, p_calls, f_calls, p_ret, f_ret,
                   fallback_results, scoring, others>>

\* Step 2: one fallback engine recognizes the crop.
RecognizeFallback ==
    /\ pc = "fallback"
    /\ \E i \in 1..Len(fallback) :
         /\ f_calls[i] = <<>>
         /\ \E o \in Recognize(fallback[i]) :
              /\ f_calls' = [f_calls EXCEPT ![i] = Append(@, Unwrap(crop))]
              /\ f_ret' = [f_ret EXCEPT ![i] = o]
    /\ UNCHANGED <<args, pc, crop, p_calls, p_ret, priority_results,
                   fallback_results, ret, scoring, others>>

\* Step 3: the fallback tier has joined: pick the best constraint-satisfying
\* candidate of all engines.
PickBest ==
    /\ pc = "fallback"
    /\ \A i \in 1..Len(fallback) : f_calls[i] # <<>>
    /\ fallback_results' = Collect(f_ret)
    /\ priority_results' = priority_results \o fallback_results'
    /\ ret' = Some(Reading(best_result_constrained(
                       priority_results \o Collect(f_ret), filter_numeric,
                       expectation, prev_value)))
    /\ pc' = "done"
    /\ UNCHANGED <<args, crop, p_calls, f_calls, p_ret, f_ret, scoring, others>>

\* The scoring functions applied to the candidate text.
ApplyScoring ==
    /\ ~s_done
    /\ pc = "idle"
    /\ s_score' = validation_score(s_text, s_exp, s_prev)
    /\ s_eligible' = passes_hard_constraints(s_text, s_exp, s_prev)
    /\ s_done' = TRUE
    /\ UNCHANGED <<args, locals, s_text, s_exp, s_prev, others>>

\* --------------------------------------------------------- specifications

NoCalls(engines) == [i \in 1..Len(engines) |-> <<>>]

InitLocals ==
    /\ crop = None
    /\ p_calls = NoCalls(priority) /\ p_ret = NoCalls(priority)
    /\ f_calls = NoCalls(fallback) /\ f_ret = NoCalls(fallback)
    /\ priority_results = <<>> /\ fallback_results = <<>>
    /\ ret = None

ScoringIdle ==
    /\ s_text = <<>> /\ s_prev = None
    /\ s_exp = Expectation(FALSE, None, None, None, None, None)
    /\ s_done = FALSE /\ s_score = 0 /\ s_eligible = FALSE

InterpIdle ==
    /\ keyframes = <<>> /\ ts = F(0)
    /\ i_done = FALSE /\ regions_at = <<>> /\ t_used = None

Running == x_pc \in {"start", "engines", "loop", "decode", "fanout"}

Event(e, n, v) == [e |-> e, frame |-> n, v |-> v]

\* ExtractProgress { frame, total, elapsed_frames, .. }
Progress(n, total, elapsed_frames) ==
    [e |-> "progress", frame |-> n, v |-> TRUE, total |-> total,
     elapsed_frames |-> elapsed_frames]

\* extract is not running.
ExtractIdle ==
    /\ x_pc = "idle" /\ fps = F(1) /\ fps_sample = 1
    /\ x_priority = <<>> /\ x_fallback = <<>>
    /\ cancel_flag = FALSE
    /\ first_frame = 0 /\ last_frame = 0 /\ frame_num = 0 /\ elapsed = 0
    /\ frame_regions = <<>> /\ outcomes = <<>>
    /\ prev_values = <<>> /\ frame_prev = <<>>
    /\ measurements = <<>> /\ events = <<>> /\ result = None

\* recognize is not running.
RecogIdle ==
    /\ r_engine = "" /\ r_backend = None /\ r_done = FALSE /\ r_ret = None

\* clean_number is not running.
CleanIdle == c_text = <<>> /\ c_done = FALSE /\ c_ret = <<>>

\* tile_mapping is not running.
EqualizeIdle ==
    /\ h_pc = "idle" /\ h_img = <<>> /\ h_tx = 0 /\ h_ty = 0
    /\ h_size = 0 /\ h_factor = 0
    /\ h_raw = <<>> /\ hist = <<>> /\ excess = 0 /\ mapping = <<>>

\* read_region on a rectangle inside the frame, over every pool the stub
\* engines can produce.
Init ==
    /\ region = Region(0, 0, MaxCoord, MaxCoord)
    /\ frame_width = MaxCoord /\ frame_height = MaxCoord
    /\ priority \in PriorityLists
    /\ fallback = FallbackList
    /\ fast_threshold \in {1, ConfSteps}
    /\ \E in \in FusionInputs : expectation = in[1] /\ prev_value = in[2]
    /\ stub = CandTexts \X (1..ConfSteps)
    /\ pc = "entry"
    /\ InitLocals
    /\ ScoringIdle
    /\ InterpIdle
    /\ ExtractIdle
    /\ RecogIdle
    /\ CleanIdle
    /\ EqualizeIdle

Next == Entry \/ RecognizePriority \/ FastPath \/ RecognizeFallback
        \/ PickBest

Spec == Init /\ [][Next]_vars

\* read_region over every rectangle and frame size, with one stub result.
InitGeometry ==
    /\ region \in {Region(x, y, w, h) :
                     x \in -1..MaxCoord, y \in -1..MaxCoord,
                     w \in -1..MaxCoord + 1, h \in -1..MaxCoord + 1}
    /\ frame_width \in 0..MaxCoord /\ frame_height \in 0..MaxCoord
    /\ priority = <<"oar-ocr/rgb", "oar-ocr/gray">>
    /\ fallback = FallbackList
    /\ fast_threshold = ConfSteps
    /\ expectation = None /\ prev_value = None
    /\ stub = {<<<<"7">>, ConfSteps>>}
    /\ pc = "entry"
    /\ InitLocals
    /\ ScoringIdle
    /\ InterpIdle
    /\ ExtractIdle
    /\ RecogIdle
    /\ CleanIdle
    /\ EqualizeIdle

SpecGeometry == InitGeometry /\ [][Next]_vars

\* validation_score and passes_hard_constraints on one candidate.
InitScoring ==
    /\ region = Region(0, 0, 0, 0)
    /\ frame_width = 0 /\ frame_height = 0
    /\ priority = <<>> /\ fallback = <<>>
    /\ fast_threshold = ConfSteps
    /\ expectation = None /\ prev_value = None
    /\ stub = {}
    /\ pc = "idle"
    /\ InitLocals
    /\ s_text \in ScoreTexts
    /\ s_exp \in ScoreExpectations
    /\ s_prev \in ScorePrevs
    /\ s_done = FALSE /\ s_score = 0 /\ s_eligible = FALSE
    /\ InterpIdle
    /\ ExtractIdle
    /\ RecogIdle
    /\ CleanIdle
    /\ EqualizeIdle

NextScoring == ApplyScoring

SpecScoring == InitScoring /\ [][NextScoring]_vars

\* read_region with engines that may return nothing, over both, one or no
\* tier of engines.
BackendTexts == {<<"4", ".", "S">>, <<"1", "5", "0">>}

InitBackends ==
    /\ region = Region(0, 0, MaxCoord, MaxCoord)
    /\ frame_width = MaxCoord /\ frame_height = MaxCoord
    /\ priority \in PriorityLists
    /\ fallback \in {<<>>, FallbackList}
    /\ fast_threshold = ConfSteps
    /\ expectation \in {None, Some(Expectation(TRUE, Some(F(0)), Some(F(100)),
                                               None, None, None))}
    /\ prev_value = None
    /\ stub = BackendTexts \X {1, ConfSteps}
    /\ pc = "entry"
    /\ InitLocals
    /\ ScoringIdle
    /\ InterpIdle
    /\ ExtractIdle
    /\ RecogIdle
    /\ CleanIdle
    /\ EqualizeIdle

SpecBackends == InitBackends /\ [][Next]_vars

\* -------------------------------------------------- get_regions_at runs

Rect(x, y, width, height) ==
    [x |-> x, y |-> y, width |-> width, height |-> height]

NamedRegion(name, r) ==
    [name |-> name, x |-> r.x, y |-> r.y, width |-> r.width,
     height |-> r.height]

Keyframe(timestamp, regions) ==
    [timestamp |-> timestamp, regions |-> regions]

Gauge(r) == NamedRegion("gauge", r)
Dial(r) == NamedRegion("dial", r)

SmallRect == Rect(0, 0, 100, 50)
LargeRect == Rect(0, 0, 200, 100)
OddRect == Rect(-3, 5, 1, 4)

\* Region lists of a keyframe: names are unique within a keyframe; a
\* keyframe may hold no region.
RegionLists ==
    { <<>>, <<Gauge(SmallRect)>>, <<Gauge(LargeRect)>>, <<Gauge(OddRect)>>,
      <<Dial(SmallRect)>>, <<Gauge(SmallRect), Dial(OddRect)>>,
      <<Dial(LargeRect), Gauge(OddRect)>> }

KeyframeTimes == {F(5 * k) : k \in 0..MaxStep}

Keyframes == {Keyframe(t, r) : t \in KeyframeTimes, r \in RegionLists}

\* Sorted ascending by timestamp (equal timestamps allowed), as
\* sort_keyframes leaves the list.
IsSorted(kfs) ==
    \A i \in 1..Len(kfs) - 1 : NumLe(kfs[i].timestamp, kfs[i + 1].timestamp)

\* The keyframes of kfs up to the last one whose timestamp is at most that
\* of kf, then kf, then the rest.
RECURSIVE InsertByTime(_, _)
InsertByTime(kfs, kf) ==
    IF kfs # <<>> /\ NumLt(kf.timestamp, kfs[Len(kfs)].timestamp)
    THEN Append(InsertByTime(SubSeq(kfs, 1, Len(kfs) - 1), kf), kfs[Len(kfs)])
    ELSE Append(kfs, kf)

\* self.keyframes.sort_by(|a, b| a.timestamp.partial_cmp(&b.timestamp)):
\* a stable sort.
RECURSIVE sort_keyframes(_)
sort_keyframes(kfs) ==
    IF kfs = <<>> THEN <<>>
    ELSE InsertByTime(sort_keyframes(SubSeq(kfs, 1, Len(kfs) - 1)),
                      kfs[Len(kfs)])

\* load_config: the keyframes of the file, sorted.
load_config(kfs) == sort_keyframes(kfs)

SortedKeyframeLists ==
    {kfs \in UNION {[1..n -> Keyframes] : n \in 0..MaxKeyframes} :
        IsSorted(kfs)}

\* Timestamps asked for: every 2.5 s from before the first to after the
\* last possible keyframe.
QueryTimes == {[m |-> 25 * k, d |-> 1] : k \in -1..(2 * MaxStep + 1)}

\* read_region is not running.
ReadRegionIdle ==
    /\ region = Region(0, 0, 0, 0)
    /\ frame_width = 0 /\ frame_height = 0
    /\ priority = <<>> /\ fallback = <<>>
    /\ fast_threshold = ConfSteps
    /\ expectation = None /\ prev_value = None
    /\ stub = {}
    /\ pc = "idle"
    /\ InitLocals

\* config.get_regions_at(ts)
GetRegionsAt ==
    /\ ~i_done
    /\ pc = "idle"
    /\ regions_at' = get_regions_at(keyframes, ts)
    /\ t_used' = factor_used(keyframes, ts)
    /\ i_done' = TRUE
    /\ UNCHANGED <<args, locals, scoring, keyframes, ts, frames, recog,
                   cleaning, equalize>>

InitInterp ==
    /\ ReadRegionIdle
    /\ ScoringIdle
    /\ ExtractIdle
    /\ RecogIdle
    /\ CleanIdle
    /\ EqualizeIdle
    /\ keyframes \in SortedKeyframeLists
    /\ ts \in QueryTimes
    /\ i_done = FALSE /\ regions_at = <<>> /\ t_used = None

NextInterp == GetRegionsAt

SpecInterp == InitInterp /\ [][NextInterp]_vars

\* Longer keyframe lists over two region lists, so that keyframes sharing
\* a timestamp lie strictly inside the list.
TimedKeyframes ==
    {Keyframe(t, r) : t \in KeyframeTimes,
                      r \in {<<Gauge(SmallRect)>>, <<Gauge(OddRect)>>}}

TimedKeyframeLists ==
    {kfs \in UNION {[1..n -> TimedKeyframes] : n \in 0..MaxKeyframes + 1} :
        IsSorted(kfs)}

InitTimes ==
    /\ ReadRegionIdle
    /\ ScoringIdle
    /\ ExtractIdle
    /\ RecogIdle
    /\ CleanIdle
    /\ EqualizeIdle
    /\ keyframes \in TimedKeyframeLists
    /\ ts \in QueryTimes
    /\ i_done = FALSE /\ regions_at = <<>> /\ t_used = None

SpecTimes == InitTimes /\ [][NextInterp]_vars

\* ---------------------------------------------------------------- extract

\* read_region as a function of what the two tiers of engines return: the
\* clamp, the fast path on the priority results, then the best of all.
ReadingOf(best, numeric) ==
    IF best = None THEN EmptyReading ELSE make_result(Unwrap(best), numeric)

FastPathOf(best, numeric, threshold, exp, prev) ==
    /\ best # None
    /\ Score(Unwrap(best), exp, prev) >= threshold * ScoreOne
    /\ (~numeric \/ IsNumericText(Unwrap(best).text))

ReadPools(p, f, numeric, threshold, exp, prev, best) ==
    IF FastPathOf(best, numeric, threshold, exp, prev)
    THEN make_result(Unwrap(best), numeric)
    ELSE ReadingOf(best_result_constrained(p \o f, numeric, exp, prev),
                   numeric)

ReadCrop(p, f, numeric, threshold, exp, prev) ==
    ReadPools(p, f, numeric, threshold, exp, prev,
              best_result_constrained(p, numeric, exp, prev))

ReadRegionOf(r, fw, fh, p, f, threshold, exp, prev) ==
    IF rect_is_empty(Max(r.x, 0), Max(r.y, 0),
                     Min(Max(r.x, 0) + Max(r.width, 0), fw),
                     Min(Max(r.y, 0) + Max(r.height, 0), fh))
    THEN EmptyReading
    ELSE ReadCrop(p, f, exp # None /\ Unwrap(exp).numeric, threshold, exp,
                  prev)

\* (ts * fps).round() as u64: negative values saturate to 0.
FrameOf(t, rate) ==
    IF Small(t) /\ Small(rate) /\ Abs(Q16(t)) < 32768 /\ Abs(Q16(rate)) < 32768
    THEN Max(Round(Q16(t) * Q16(rate), 256), 0)
    ELSE RoundU64(MulF64(ToF64(t), ToF64(rate)))

\* let fps_sample = params.fps_sample.max(1) as u64;
Step(sample) == Max(sample, 1)

\* (last_frame.saturating_sub(first_frame)) / fps_sample + 1
MutTotalWithoutLast(first, last, sample) ==
    Max(last - first, 0) \div Step(sample)

total_steps(first, last, sample) ==
    (Max(last - first, 0) \div Step(sample)) + 1

\* frame_num as f64 / fps
FrameTime(n, rate) ==
    IF SmallQuotient(F(n), rate) THEN Div(F(n), rate)
    ELSE DivF64(IntToF64(n), ToF64(rate))

\* kf_ts sorted: the least and the greatest keyframe timestamp.
LeastTime(kfs) ==
    kfs[CHOOSE i \in 1..Len(kfs) :
            \A j \in 1..Len(kfs) : NumLe(kfs[i].timestamp, kfs[j].timestamp)
       ].timestamp
GreatestTime(kfs) ==
    kfs[CHOOSE i \in 1..Len(kfs) :
            \A j \in 1..Len(kfs) : NumLe(kfs[j].timestamp, kfs[i].timestamp)
       ].timestamp

\* while frame_num <= last_frame { if flag.load(Ordering::Relaxed) { break; }
MutLoopIgnoresFlag(n, last, flag) == n > last

loop_exits(n, last, flag) == n > last \/ flag

\* Whether the loop condition let the iteration load the flag.
flag_loaded(n, last) == n <= last

\* params.config.expectations.get(&region.name)
expectation_of(expectations, name) ==
    IF name \in DOMAIN expectations THEN Some(expectations[name]) ELSE None

\* prev_snap.get(&region.name).copied()
prev_of(values, name) ==
    IF name \in DOMAIN values THEN Some(values[name]) ELSE None

\* prev_values.insert(name, v)
Insert(values, name, v) ==
    [n \in DOMAIN values \cup {name} |->
        IF n = name THEN v ELSE values[n]]

\* prev_values.insert overwrites the value stored for the name.
MutAcceptKeepsFirst(values, m) ==
    IF ParseF64(m.value) = None \/ m.region_name \in DOMAIN values THEN values
    ELSE Insert(values, m.region_name, Unwrap(ParseF64(m.value)))

\* A value that does not parse inserts nothing and removes nothing.
MutAcceptClearsOnEmpty(values, m) ==
    IF ParseF64(m.value) = None
    THEN [n \in DOMAIN values \ {m.region_name} |-> values[n]]
    ELSE Insert(values, m.region_name, Unwrap(ParseF64(m.value)))

\* if let Ok(v) = m.value.parse::<f64>() { prev_values.insert(..) }
Accept(values, m) ==
    IF ParseF64(m.value) = None THEN values
    ELSE Insert(values, m.region_name, Unwrap(ParseF64(m.value)))

\* for (m, _) in &outcomes { ... }
RECURSIVE AcceptAll(_, _)
AcceptAll(values, ms) ==
    IF ms = <<>> THEN values
    ELSE AcceptAll(Accept(values, Head(ms)), Tail(ms))

\* What a region task does to prev_values while the frame's tasks run: the
\* closure holds the shared borrow prev_snap and writes nothing.
MutTaskStoresValue(values, m) == Accept(values, m)

task_leaves(values, m) == values

Measurement(t, n, name, reading) ==
    [timestamp |-> t, frame_number |-> n, region_name |-> name,
     value |-> reading.value, confidence |-> reading.confidence,
     raw_text |-> reading.raw_text, source |-> reading.engine_name]

\* ------------------------------------------------------------ the CSV text
\* A text is a sequence of pieces: single characters, and the names of
\* regions, engines and columns, which hold neither a comma nor a line feed.

DigitChar(k) == <<"0", "1", "2", "3", "4", "5", "6", "7", "8", "9">>[k + 1]

\* Display of an unsigned integer.
RECURSIVE FormatNat(_)
FormatNat(n) ==
    IF n < 10 THEN <<DigitChar(n)>>
    ELSE FormatNat(n \div 10) \o <<DigitChar(n % 10)>>

\* The last width decimal digits of n, zero padded.
RECURSIVE PadDigits(_, _)
PadDigits(n, width) ==
    IF width = 0 THEN <<>>
    ELSE PadDigits(n \div 10, width - 1) \o <<DigitChar(n % 10)>>

RECURSIVE StripZeros(_)
StripZeros(t) ==
    IF t # <<>> /\ t[Len(t)] = "0"
    THEN StripZeros(SubSeq(t, 1, Len(t) - 1)) ELSE t

\* x >= 10^k, for a finite x > 0 in binary digits.
GePow10(x, k) ==
    BCmp(BMul(BShl(x.mant, Max(x.exp, 0)), BPow10(Max(-k, 0))),
         BMul(BShl(<<1>>, Max(-x.exp, 0)), BPow10(Max(k, 0)))) >= 0

\* The decimal exponent of the first digit of x: the greatest k with
\* 10^k <= x.
Exp10At(x, g) ==
    IF ~GePow10(x, g) THEN g - 1 ELSE IF GePow10(x, g + 1) THEN g + 1 ELSE g
Exp10(x) == Exp10At(x, ((Top(x) - 1) * 30103) \div 100000)

\* The whole number nearest to x * 10^s.
NearestWhole(qr, den) ==
    IF BCmp(BShl(qr.r, 1), den) > 0
       \/ (BCmp(BShl(qr.r, 1), den) = 0 /\ BLimb(qr.q, 1) % 2 = 1)
    THEN BAdd(qr.q, <<1>>) ELSE qr.q
ScaledWhole(x, s) ==
    NearestWhole(BDivMod(BMul(BShl(x.mant, Max(x.exp, 0)), BPow10(Max(s, 0))),
                         BMul(BShl(<<1>>, Max(-x.exp, 0)),
                              BPow10(Max(-s, 0)))),
                 BMul(BShl(<<1>>, Max(-x.exp, 0)), BPow10(Max(-s, 0))))

\* The decimal w / 10^s reads back as x.
RoundTrips(x, w, s) ==
    Round53(FALSE, BMul(w, BPow10(Max(-s, 0))), BPow10(Max(s, 0)), 0)
        = AbsF64(x)

\* The shortest decimal w / 10^s that reads back as x, from n digits on.
RECURSIVE ShortestFrom(_, _, _)
ShortestFrom(x, e10, n) ==
    IF n >= 17 \/ RoundTrips(x, ScaledWhole(x, n - 1 - e10), n - 1 - e10)
    THEN [w |-> ScaledWhole(x, n - 1 - e10), s |-> n - 1 - e10]
    ELSE ShortestFrom(x, e10, n + 1)

RECURSIVE BToDigits(_)
BToDigits(w) ==
    IF w = <<>> THEN <<>>
    ELSE BToDigits(BDivSmall(w, 10)) \o <<DigitChar(BModSmall(w, 10))>>

Zeros(n) == [i \in 1..n |-> "0"]

\* The digits ds with the last s of them after the point, no exponent.
Plain(ds, s) ==
    IF s <= 0 THEN ds \o Zeros(-s)
    ELSE LET whole == IF Len(ds) > s THEN SubSeq(ds, 1, Len(ds) - s)
                      ELSE <<"0">>
             frac == StripZeros(Zeros(s - Len(ds))
                                \o SubSeq(ds, Max(Len(ds) - s, 0) + 1, Len(ds)))
         IN  whole \o (IF frac = <<>> THEN <<>> ELSE <<".">> \o frac)

FormatShortest(r) == Plain(BToDigits(r.w), r.s)

\* Display of an f64 in binary digits.
FormatBinary(x) ==
    IF x.kind = "nan" THEN <<"N", "a", "N">>
    ELSE (IF x.neg THEN <<"-">> ELSE <<>>)
         \o (IF x.kind = "inf" THEN <<"i", "n", "f">>
             ELSE IF IsZero(x) THEN <<"0">>
             ELSE FormatShortest(ShortestFrom(x, Exp10(x), 1)))

\* Display of an f64 ({}): the shortest decimal that reads back as the
\* value, no point for a whole number and no exponent.
FormatF64(x) ==
    IF ~IsDec(x) THEN FormatBinary(x)
    ELSE LET frac == StripZeros(PadDigits(Abs(x.m) % Pow10(x.d), x.d))
         IN  (IF x.m < 0 THEN <<"-">> ELSE <<>>)
             \o FormatNat(Abs(x.m) \div Pow10(x.d))
             \o (IF frac = <<>> THEN <<>> ELSE <<".">> \o frac)

\* {:.4} of the confidence c / ConfSteps.
FormatFixed4(c) ==
    LET scaled == Round(c * 10000, ConfSteps)
    IN  FormatNat(scaled \div 10000) \o <<".">> \o PadDigits(scaled % 10000, 4)

CsvHeader ==
    <<"timestamp", ",", "frame_number", ",", "region_name", ",", "value", ",",
      "confidence", ",", "raw_text", ",", "source", "\n">>

\* format!("{},{},{},{},{:.4},{},{}\n", ...)
CsvRow(m) ==
    FormatF64(m.timestamp) \o <<",">> \o FormatNat(m.frame_number)
    \o <<",", m.region_name, ",">> \o m.value \o <<",">>
    \o FormatFixed4(m.confidence) \o <<",">> \o m.raw_text
    \o <<",", m.source, "\n">>

RECURSIVE CsvRows(_)
CsvRows(ms) == IF ms = <<>> THEN <<>> ELSE CsvRow(Head(ms)) \o CsvRows(Tail(ms))

\* let mut csv = String::from(header); for m in &measurements { push_str }
Csv(ms) == CsvHeader \o CsvRows(ms)

ExtractResult(ms) == [measurements |-> ms, csv |-> Csv(ms)]

\* ------------------------------------------------------------ extract runs

\* Whether the model files are found, whether build_pipeline succeeds,
\* and params.preprocess.
EngineInputs ==
    {<<TRUE, TRUE, FALSE>>, <<FALSE, TRUE, TRUE>>, <<TRUE, FALSE, TRUE>>}

\* What the engines of the two lists p and f return for one region of one
\* frame: nothing at all; "10" from the first priority engine, if there is
\* one; "20" from the last fallback engine; the two lines "10" and "x"
\* from the first fallback engine.
FramePools(p, f) ==
    { <<<<>>, <<>>>>,
      <<<<>>, <<OcrResult(<<"2", "0">>, 1, f[Len(f)])>>>>,
      <<<<>>, <<OcrResult(<<"1", "0", "\n", "x">>, 1, f[1])>>>> }
    \cup (IF p = <<>> THEN {}
          ELSE {<<<<OcrResult(<<"1", "0">>, ConfSteps, p[1])>>, <<>>>>})

\* Frame sizes decode_frame_at reports.
FrameSize == [w |-> 200, h |-> 100]

\* params.config.expectations: "gauge" is numeric and may change by 5.
ExtractExpectations ==
    [n \in {"gauge"} |->
        Expectation(TRUE, None, None, None, None, Some(F(5)))]

\* params.config.keyframes, as the caller supplies them.
ExtractConfigs ==
    { <<Keyframe(F(0), <<Gauge(SmallRect)>>)>>,
      <<Keyframe(F(0), <<Gauge(SmallRect)>>),
        Keyframe(F(2), <<Gauge(LargeRect), Dial(OddRect)>>)>>,
      <<Keyframe(F(0), <<>>),
        Keyframe(F(1), <<Gauge(SmallRect), Dial(OddRect)>>),
        Keyframe(F(2), <<Dial(SmallRect)>>)>>,
      <<Keyframe(F(2), <<Dial(SmallRect)>>),
        Keyframe(F(0), <<Gauge(SmallRect)>>)>>,
      <<Keyframe(F(1), <<Gauge(OddRect)>>),
        Keyframe(F(1), <<Gauge(OddRect)>>)>>,
      <<Keyframe(F(0), <<Gauge(SmallRect)>>),
        Keyframe(F(1), <<Gauge(OddRect)>>)>> }

\* info.fps and params.fps_sample; the videos have frames 0..MaxFrame
\* between the keyframes.
ExtractRates == {F(1), F(2)}
ExtractSamples == {0, 1, 2}

\* cancel_extract, called while extract runs, up to MaxCancels times.
CancelExtract ==
    /\ Running
    /\ Cardinality({i \in 1..Len(events) : events[i].e = "cancel"})
           < MaxCancels
    /\ cancel_flag' = TRUE
    /\ events' = Append(events, Event("cancel", frame_num, TRUE))
    /\ UNCHANGED <<args, locals, scoring, interp, recog, cleaning, equalize, x_pc, x_priority, x_fallback,
                   fps, fps_sample,
                   first_frame, last_frame, frame_num, elapsed, frame_regions,
                   outcomes, prev_values, frame_prev, measurements, result>>

\* extract up to the engine lists: the keyframe check, the video info and
\* the frame range.
ExtractStart ==
    /\ x_pc = "start"
    /\ \E info_ok \in BOOLEAN :
         IF Len(keyframes) < 2 \/ ~info_ok
         THEN /\ x_pc' = "failed"
              /\ result' = Some("Err")
              /\ UNCHANGED <<first_frame, last_frame>>
         ELSE /\ x_pc' = "engines"
              /\ first_frame' = FrameOf(LeastTime(keyframes), fps)
              /\ last_frame' = FrameOf(GreatestTime(keyframes), fps)
              /\ result' = result
    /\ UNCHANGED <<args, locals, scoring, interp, recog, cleaning, equalize, x_priority, x_fallback,
                   fps, fps_sample,
                   cancel_flag, frame_num, elapsed, frame_regions, outcomes,
                   prev_values, frame_prev, measurements, events>>

\* The engine lists are built; flag.store(false) and the loop's locals.
StartLoop ==
    /\ x_pc = "engines"
    /\ \E in \in EngineInputs :
          /\ x_priority' = priority_engines(in[1], in[2])
          /\ x_fallback' = fallback_engines(in[3])
    /\ cancel_flag' = FALSE
    /\ prev_values' = <<>>
    /\ measurements' = <<>>
    /\ elapsed' = 0
    /\ frame_num' = first_frame
    /\ x_pc' = "loop"
    /\ events' = Append(events, Event("reset", first_frame, cancel_flag))
    /\ UNCHANGED <<args, locals, scoring, interp, recog, cleaning, equalize, fps, fps_sample,
                   first_frame, last_frame, frame_regions, outcomes, frame_prev,
                   result>>

\* The loop is left: the CSV is built, Ok(ExtractResult { measurements, csv }).
LeaveLoop ==
    /\ x_pc' = "done"
    /\ result' = Some(ExtractResult(measurements))
    /\ UNCHANGED <<frame_num, elapsed, frame_regions, outcomes, frame_prev>>

\* elapsed += 1; frame_num += fps_sample; continue;
SkipFrame ==
    /\ elapsed' = elapsed + 1
    /\ frame_num' = frame_num + Step(fps_sample)
    /\ x_pc' = "loop"
    /\ UNCHANGED <<outcomes, frame_prev, result>>

\* The frame is decoded: the region tasks are handed the shared borrow of
\* prev_values.
FanOut ==
    /\ x_pc' = "fanout"
    /\ outcomes' = [i \in 1..Len(frame_regions) |-> None]
    /\ frame_prev' = prev_values
    /\ UNCHANGED <<frame_num, elapsed, result>>

\* The frame's regions are known and there are some: decode_frame_at is
\* called next.
ToDecode ==
    /\ x_pc' = "decode"
    /\ UNCHANGED <<frame_num, elapsed, outcomes, frame_prev, result>>

\* From the loop condition to the regions of the frame: the flag is loaded
\* when the condition holds.
LoopTop ==
    /\ x_pc = "loop"
    /\ IF loop_exits(frame_num, last_frame, cancel_flag)
       THEN /\ LeaveLoop
            /\ events' = IF flag_loaded(frame_num, last_frame)
                         THEN Append(events,
                                     Event("poll", frame_num, cancel_flag))
                         ELSE events
       ELSE /\ \E timestamp \in {FrameTime(frame_num, fps)} :
                  frame_regions' = get_regions_at(keyframes, timestamp)
            /\ events' = Append(events,
                               Event("poll", frame_num, cancel_flag))
            /\ IF frame_regions' = <<>> THEN SkipFrame ELSE ToDecode
    /\ UNCHANGED <<args, locals, scoring, interp, recog, cleaning, equalize, x_priority, x_fallback,
                   fps, fps_sample,
                   cancel_flag, first_frame, last_frame, prev_values,
                   measurements>>

\* decode_frame_at: the frame's tasks are started, or on Err the frame is
\* skipped.
DecodeFrame ==
    /\ x_pc = "decode"
    /\ \E ok \in BOOLEAN :
          /\ events' = Append(events, Event("decode", frame_num, ok))
          /\ IF ok THEN FanOut ELSE SkipFrame
    /\ UNCHANGED <<frame_regions, args, locals, scoring, interp, recog, cleaning, equalize, x_priority, x_fallback,
                   fps, fps_sample,
                   cancel_flag, first_frame, last_frame, prev_values,
                   measurements>>

\* The task of region i: the expectation and the previous value are looked
\* up, read_region runs on what the engines return.
RegionTask ==
    /\ x_pc = "fanout"
    /\ \E i \in 1..Len(frame_regions),
          pool \in FramePools(x_priority, x_fallback) :
         /\ outcomes[i] = None
         /\ outcomes' = [outcomes EXCEPT ![i] = Some(
              [prev |-> prev_of(prev_values, frame_regions[i].name),
               m |-> Measurement(FrameTime(frame_num, fps), frame_num,
                        frame_regions[i].name,
                        ReadRegionOf(frame_regions[i], FrameSize.w,
                            FrameSize.h,
                            pool[1], pool[2], ConfSteps,
                            expectation_of(ExtractExpectations,
                                           frame_regions[i].name),
                            prev_of(prev_values, frame_regions[i].name)))])]
         /\ prev_values' = task_leaves(prev_values, Unwrap(outcomes'[i]).m)
    /\ UNCHANGED <<args, locals, scoring, interp, recog, cleaning, equalize, x_pc, x_priority, x_fallback,
                   fps, fps_sample,
                   cancel_flag, first_frame, last_frame, frame_num, elapsed,
                   frame_regions, frame_prev, measurements, events, result>>

\* The measurements of the outcomes, in region order.
Collected(outs) == [i \in 1..Len(outs) |-> Unwrap(outs[i]).m]

\* All tasks have joined: the progress event, the accepted values, the
\* measurements, the next frame.
JoinFrame ==
    /\ x_pc = "fanout"
    /\ \A i \in 1..Len(outcomes) : outcomes[i] # None
    /\ events' = Append(events,
                     Progress(frame_num,
                              total_steps(first_frame, last_frame, fps_sample),
                              elapsed))
    /\ prev_values' = AcceptAll(prev_values, Collected(outcomes))
    /\ measurements' = measurements \o Collected(outcomes)
    /\ elapsed' = elapsed + 1
    /\ frame_num' = frame_num + Step(fps_sample)
    /\ x_pc' = "loop"
    /\ UNCHANGED <<args, locals, scoring, interp, recog, cleaning, equalize, x_priority, x_fallback,
                   fps, fps_sample,
                   cancel_flag, first_frame, last_frame, frame_regions,
                   outcomes,
                   frame_prev, result>>

\* extract is invoked with a config and a sampling step; the shared flag
\* may still be set from an earlier run.
InitExtract ==
    /\ ReadRegionIdle
    /\ ScoringIdle
    /\ RecogIdle
    /\ CleanIdle
    /\ EqualizeIdle
    /\ keyframes \in ExtractConfigs
    /\ ts = F(0) /\ i_done = FALSE /\ regions_at = <<>> /\ t_used = None
    /\ x_pc = "start"
    /\ x_priority = <<>> /\ x_fallback = <<>>
    /\ fps \in {r \in ExtractRates :
                  FrameOf(GreatestTime(keyframes), r) <= MaxFrame}
    /\ fps_sample \in ExtractSamples
    /\ cancel_flag \in BOOLEAN
    /\ first_frame = 0 /\ last_frame = 0 /\ frame_num = 0 /\ elapsed = 0
    /\ frame_regions = <<>> /\ outcomes = <<>>
    /\ prev_values = <<>> /\ frame_prev = <<>>
    /\ measurements = <<>> /\ events = <<>> /\ result = None

NextExtract ==
    ExtractStart \/ StartLoop \/ LoopTop \/ DecodeFrame \/ RegionTask
    \/ JoinFrame \/ CancelExtract

SpecExtract == InitExtract /\ [][NextExtract]_vars

\* The steps of extract itself: the command runs on; cancel_extract may or
\* may not be called.
ExtractSteps ==
    ExtractStart \/ StartLoop \/ LoopTop \/ DecodeFrame \/ RegionTask
    \/ JoinFrame

\* The configs termination is checked on: every config but the one of two
\* keyframes that reads two regions in two of its frames.
LiveConfigs ==
    {c \in ExtractConfigs :
        Len(c) >= 3 \/ \A i \in 1..Len(c) : Len(c[i].regions) <= 1}

InitExtractLive == InitExtract /\ keyframes \in LiveConfigs

SpecExtractLive ==
    InitExtractLive /\ [][NextExtract]_vars /\ WF_vars(ExtractSteps)

\* ------------------------------------------------------------ recognizers

OarNames == {"oar-ocr/rgb", "oar-ocr/gray"}
TesseractNames ==
    {"tesseract/binary", "tesseract/gray", "tesseract/raw-gray",
     "tesseract/rgb", "tesseract/channel-r", "tesseract/channel-g",
     "tesseract/channel-b"}

\* const PSMS: &[u32] = &[7, 6, 8, 13];
PSMS == <<7, 6, 8, 13>>

\* OarRecognizer::recognize on what predict returns: None for Err, else
\* the texts and the scores; the first text, if it is not the empty string.
OarFirst(predicted, name) ==
    IF predicted.texts[1] = <<>> THEN None
    ELSE Some(OcrResult(predicted.texts[1],
                        IF predicted.scores = <<>> THEN 0
                        ELSE predicted.scores[1],
                        name))

oar_recognize(predicted, name) ==
    IF predicted = None THEN None
    ELSE IF Unwrap(predicted).texts = <<>> THEN None
    ELSE OarFirst(Unwrap(predicted), name)

\* try_ocr on what the Tesseract API gives for one PSM: None when a call
\* fails, else the text and mean_text_conf (in steps of confidence, -1 when
\* Tesseract has none).
try_ocr(api) ==
    IF api = None THEN None
    ELSE IF Trim(Unwrap(api).raw) = <<>> THEN None
    ELSE Some([text |-> Trim(Unwrap(api).raw),
               conf |-> Max(Unwrap(api).mean_text_conf, 0)])

\* .filter_map(|&psm| try_ocr(..).ok()): the results that are Ok.
OkResults(apis) ==
    {Unwrap(try_ocr(apis[i])) :
        i \in {j \in 1..Len(apis) : try_ocr(apis[j]) # None}}

\* run_ocr_bytes: a result of greatest confidence among those of the PSMs
\* (the parallel max_by does not say which of equal maxima), None if none.
run_ocr_bytes(apis, name) ==
    IF OkResults(apis) = {} THEN {None}
    ELSE {Some(OcrResult(r.text, r.conf, name)) :
            r \in {q \in OkResults(apis) :
                      \A o \in OkResults(apis) : o.conf <= q.conf}}

\* Texts a backend puts out.
BackendOutputs == {<<>>, <<" ">>, <<"7">>, <<" ", "7", "\n">>}

Predictions ==
    {None, Some([texts |-> <<>>, scores |-> <<>>])}
    \cup {Some([texts |-> <<t>>, scores |-> <<c>>]) :
            t \in BackendOutputs, c \in {1, ConfSteps}}
    \cup {Some([texts |-> <<t>>, scores |-> <<>>]) : t \in BackendOutputs}

ApiOutputs ==
    {None} \cup {Some([raw |-> t, mean_text_conf |-> c]) :
                   t \in BackendOutputs \ {<<>>}, c \in {-1, ConfSteps}}

\* OarRecognizer::recognize
OarRecognize ==
    /\ ~r_done
    /\ r_engine \in OarNames
    /\ r_ret' = oar_recognize(r_backend, r_engine)
    /\ r_done' = TRUE
    /\ UNCHANGED <<args, locals, scoring, interp, frames, cleaning, equalize,
                   r_engine, r_backend>>

\* TesseractRecognizer::recognize
TesseractRecognize ==
    /\ ~r_done
    /\ r_engine \in TesseractNames
    /\ r_ret' \in run_ocr_bytes(r_backend, r_engine)
    /\ r_done' = TRUE
    /\ UNCHANGED <<args, locals, scoring, interp, frames, cleaning, equalize,
                   r_engine, r_backend>>

InitRecognize ==
    /\ ReadRegionIdle
    /\ ScoringIdle
    /\ InterpIdle
    /\ ExtractIdle
    /\ \/ r_engine \in OarNames /\ r_backend \in Predictions
       \/ r_engine \in TesseractNames
          /\ r_backend \in [1..Len(PSMS) -> ApiOutputs]
    /\ r_done = FALSE /\ r_ret = None
    /\ CleanIdle
    /\ EqualizeIdle

NextRecognize == OarRecognize \/ TesseractRecognize

SpecRecognize == InitRecognize /\ [][NextRecognize]_vars

\* ------------------------------------------------------ clean_number runs

\* The characters of the texts, and the texts of up to MaxLen characters.
CleanChars == {"-", ".", "7", "O", ",", "'", " ", "x", "\n"}
CleanTexts ==
    UNION {[1..n -> CleanChars] : n \in 0..MaxLen}
    \cup {<<"1", "'", "2", "3", "4", ",", "5", "6">>}

\* clean_number(text)
CleanNumber ==
    /\ ~c_done
    /\ c_ret' = clean_number(c_text)
    /\ c_done' = TRUE
    /\ UNCHANGED <<args, locals, scoring, interp, frames, recog, equalize,
                   c_text>>

InitClean ==
    /\ ReadRegionIdle
    /\ ScoringIdle
    /\ InterpIdle
    /\ ExtractIdle
    /\ RecogIdle
    /\ EqualizeIdle
    /\ c_text \in CleanTexts
    /\ c_done = FALSE /\ c_ret = <<>>

NextClean == CleanNumber

SpecClean == InitClean /\ [][NextClean]_vars

\* ------------------------------------------------------------------ CLAHE

\* let mut hist = [0u64; 256];
Bins == 256

\* img.get_pixel(x, y)[0] of the test images: one gray level everywhere, a
\* ramp through all levels, stripes of black and white.
PixelAt(img, x, y) ==
    CASE img.pattern = "flat" -> 200
      [] img.pattern = "ramp" -> (x + 16 * y) % Bins
      [] img.pattern = "stripes" -> IF x % 2 = 0 THEN 0 ELSE Bins - 1

\* (width + tile_size - 1) / tile_size
tiles_along(extent, tile_size) == (extent + tile_size - 1) \div tile_size

\* x0..x1 of tile t along an axis: t * tile_size up to
\* ((t + 1) * tile_size).min(extent), exclusive.
TileSpan(t, tile_size, extent) ==
    (t * tile_size)..(Min((t + 1) * tile_size, extent) - 1)

TilePixels(img, tx, ty, tile_size) ==
    TileSpan(tx, tile_size, img.width) \X TileSpan(ty, tile_size, img.height)

\* ((x1 - x0) * (y1 - y0)) as u64
tile_area(img, tx, ty, tile_size) ==
    Cardinality(TileSpan(tx, tile_size, img.width))
        * Cardinality(TileSpan(ty, tile_size, img.height))

\* for py in y0..y1 { for px in x0..x1 { hist[pixel] += 1; } }
Histogram(img, tx, ty, tile_size) ==
    [v \in 0..Bins - 1 |->
        Cardinality({p \in TilePixels(img, tx, ty, tile_size) :
                        PixelAt(img, p[1], p[2]) = v})]

\* ((tile_area as f32 / 256.0) * clip_limit_factor).max(1.0) as u64, for a
\* whole clip_limit_factor.
clip_limit(area, factor) == Max((area * factor) \div Bins, 1)

\* h[lo] + ... + h[hi]
RECURSIVE SumRange(_, _, _)
SumRange(h, lo, hi) ==
    IF lo > hi THEN 0
    ELSE IF lo = hi THEN h[lo]
    ELSE SumRange(h, lo, (lo + hi) \div 2)
         + SumRange(h, (lo + hi) \div 2 + 1, hi)

\* The bins 0..i added up.
SumBins(h, i) == SumRange(h, 0, i)

\* if *h > clip { excess += *h - clip; *h = clip; }
ExcessOver(h, clip) ==
    SumBins([v \in 0..Bins - 1 |-> Max(h[v] - clip, 0)], Bins - 1)

Clipped(h, clip) == [v \in 0..Bins - 1 |-> Min(h[v], clip)]

\* *h += per_bin + if i < leftover { 1 } else { 0 };
MutRedistributeDropsLeftover(h, total) ==
    [i \in 0..Bins - 1 |-> h[i] + total \div Bins]

Redistributed(h, total) ==
    [i \in 0..Bins - 1 |->
        h[i] + total \div Bins + (IF i < total % Bins THEN 1 ELSE 0)]

\* cdf += h; mapping[i] = ((cdf * 255) / tile_area).min(255) as u8;
ToneMapping(h, area) ==
    [i \in 0..Bins - 1 |->
        Min((SumBins(h, i) * (Bins - 1)) \div area, Bins - 1)]

\* --------------------------------------------------------- tile_mapping runs

GrayImage(width, height, pattern) ==
    [width |-> width, height |-> height, pattern |-> pattern]

\* Tile sizes up to MaxTile; images of one pixel, of one full tile, and of
\* one pixel more than a full tile along each axis.
TileSizes == {1, 2, MaxTile}
Extents == {1, MaxTile, MaxTile + 1}
Patterns == {"flat", "ramp", "stripes"}
Images == {GrayImage(w, h, p) : w \in Extents, h \in Extents, p \in Patterns}

\* CLAHE_CLIP_LIMIT is 2.0.
ClipFactors == {1, 2}

\* The first and the last tile along an axis.
EndTiles(extent, tile_size) == {0, tiles_along(extent, tile_size) - 1}

HistogramStep ==
    /\ h_pc = "histogram"
    /\ h_raw' = Histogram(h_img, h_tx, h_ty, h_size)
    /\ hist' = h_raw'
    /\ h_pc' = "clip"
    /\ UNCHANGED <<excess, mapping>>

ClipStep ==
    /\ h_pc = "clip"
    /\ excess' = ExcessOver(hist,
                    clip_limit(tile_area(h_img, h_tx, h_ty, h_size), h_factor))
    /\ hist' = Clipped(hist,
                    clip_limit(tile_area(h_img, h_tx, h_ty, h_size), h_factor))
    /\ h_pc' = "redistribute"
    /\ UNCHANGED <<h_raw, mapping>>

RedistributeStep ==
    /\ h_pc = "redistribute"
    /\ hist' = Redistributed(hist, excess)
    /\ h_pc' = "mapping"
    /\ UNCHANGED <<h_raw, excess, mapping>>

MappingStep ==
    /\ h_pc = "mapping"
    /\ mapping' = ToneMapping(hist, tile_area(h_img, h_tx, h_ty, h_size))
    /\ h_pc' = "done"
    /\ UNCHANGED <<h_raw, hist, excess>>

\* tile_mapping(img, tx, ty, tile_size, clip_limit_factor), step by step.
TileMapping ==
    /\ HistogramStep \/ ClipStep \/ RedistributeStep \/ MappingStep
    /\ UNCHANGED <<args, locals, scoring, interp, frames, recog, cleaning,
                   h_img, h_tx, h_ty, h_size, h_factor>>

InitTiles ==
    /\ ReadRegionIdle
    /\ ScoringIdle
    /\ InterpIdle
    /\ ExtractIdle
    /\ RecogIdle
    /\ CleanIdle
    /\ h_pc = "histogram"
    /\ h_img \in Images
    /\ h_size \in TileSizes
    /\ h_factor \in ClipFactors
    /\ h_tx \in EndTiles(h_img.width, h_size)
    /\ h_ty \in EndTiles(h_img.height, h_size)
    /\ h_raw = <<>> /\ hist = <<>> /\ excess = 0 /\ mapping = <<>>

NextTiles == TileMapping

SpecTiles == InitTiles /\ [][NextTiles]_vars

\* ----------------------------------------------------- terms of the claims

\* The value a candidate text stands for, None when it is no number.
ValueOf(text) == ParseF64(clean_number(text))

\* Eligibility as the specification words it: under a numeric expectation
\* the text parses as v with min <= v <= max and, when max_deviation > 0
\* and a previous value exists, |v - previous| <= max_deviation.
WithinBounds(v, e) ==
    /\ (e.min # None => NumLe(Unwrap(e.min), v))
    /\ (e.max # None => NumLe(v, Unwrap(e.max)))

CloseToPrevious(v, e, prev) ==
    (e.max_deviation # None /\ prev # None /\ Unwrap(e.max_deviation).m > 0)
        => AbsDiffLe(v, Unwrap(prev), Unwrap(e.max_deviation))

EligibleUnder(text, e, prev) ==
    e.numeric => /\ ValueOf(text) # None
                 /\ WithinBounds(Unwrap(ValueOf(text)), e)
                 /\ CloseToPrevious(Unwrap(ValueOf(text)), e, prev)

Eligible(r) ==
    expectation = None
        \/ EligibleUnder(r.text, Unwrap(expectation), prev_value)

\* Effective score: confidence x validation score.
Eff(r) ==
    r.confidence * (IF expectation = None THEN ScoreOne
                    ELSE validation_score(r.text, Unwrap(expectation),
                                          prev_value))

\* The candidates the engines returned, in backend-list order.
PriorityPool == Collect(p_ret)
FullPool == Collect(p_ret) \o Collect(f_ret)

EligibleIn(pool) == {i \in 1..Len(pool) : Eligible(pool[i])}

\* The eligible candidates of pool whose effective score is maximal.
BestIn(pool) ==
    LET eligible == EligibleIn(pool)
        eff == [i \in 1..Len(pool) |-> Eff(pool[i])]
    IN  {i \in eligible : \A j \in eligible : eff[j] <= eff[i]}

\* The reading is the candidate r as read_region reports it.
IsReadingOf(reading, r) ==
    /\ reading.value = (IF filter_numeric THEN clean_number(r.text)
                        ELSE Trim(r.text))
    /\ reading.confidence = r.confidence
    /\ reading.raw_text = Trim(r.text)
    /\ reading.preview_b64 = r.preview_b64
    /\ reading.engine_name = r.engine_name

Returned == pc = "done"
PriorityJoined == pc \in {"fallback", "done"}
FallbackRan == pc = "done" /\ \A j \in 1..Len(fallback) : f_calls[j] # <<>>
NoFallbackCall == \A j \in 1..Len(fallback) : f_calls[j] = <<>>

\* Some priority candidate is eligible and reaches the fast threshold.
ShortCircuitCase ==
    \E i \in EligibleIn(PriorityPool) :
        /\ Eff(PriorityPool[i]) >= fast_threshold * ScoreOne
        /\ (filter_numeric => ValueOf(PriorityPool[i].text) # None)

RangeExpectation ==
    Some(Expectation(TRUE, Some(F(0)), Some(F(100)), None, None, None))

\* ------------------------------------------------------------------ claims

\* C1: when no candidate of the pool is eligible under the expectation,
\* read_region returns the all-empty result, whatever the confidences of
\* the ineligible candidates.
C1_NoEligibleGivesEmpty ==
    (Returned /\ EligibleIn(FullPool) = {}) => ret = Some(EmptyReading)

\* "150" alone under {numeric, min 0, max 100}, at full confidence.
C1_Witness ==
    /\ Returned
    /\ expectation = RangeExpectation
    /\ Len(FullPool) = 1
    /\ FullPool[1].text = <<"1", "5", "0">>
    /\ FullPool[1].confidence = ConfSteps
    /\ ret = Some(EmptyReading)

\* C2: under a numeric expectation every non-empty returned value parses
\* as a number, lies within [min, max] and, when max_deviation > 0 and a
\* previous value exists, is within max_deviation of it.
C2_ReturnedValueEligible ==
    (Returned /\ filter_numeric /\ Unwrap(ret).value # <<>>) =>
        /\ ParseF64(Unwrap(ret).value) # None
        /\ WithinBounds(Unwrap(ParseF64(Unwrap(ret).value)),
                        Unwrap(expectation))
        /\ CloseToPrevious(Unwrap(ParseF64(Unwrap(ret).value)),
                           Unwrap(expectation), prev_value)

\* The full-pool path returns 4.5 although an ineligible candidate (150,
\* out of range and too far from the previous 5) has full confidence.
C2_Witness ==
    /\ FallbackRan
    /\ filter_numeric
    /\ Unwrap(expectation).max # None
    /\ Unwrap(expectation).max_deviation # None
    /\ prev_value = Some(F(5))
    /\ \E i \in 1..Len(FullPool) :
         /\ ~Eligible(FullPool[i])
         /\ FullPool[i].confidence = ConfSteps
    /\ Unwrap(ret).value = <<"4", ".", "5">>
    /\ Unwrap(ret).confidence < ConfSteps

\* C3: when some priority candidate is eligible with effective score >=
\* fastThreshold, read_region returns the best eligible priority candidate
\* and no fallback engine is ever invoked.
C3_ShortCircuit ==
    (PriorityJoined /\ ShortCircuitCase) =>
        /\ NoFallbackCall
        /\ Returned
        /\ LET pool == PriorityPool
           IN  \E k \in BestIn(pool) : IsReadingOf(Unwrap(ret), pool[k])

C3_Witness ==
    /\ Returned
    /\ ShortCircuitCase
    /\ NoFallbackCall
    /\ Len(PriorityPool) = 2
    /\ Unwrap(ret).engine_name = "oar-ocr/gray"

\* C4: when the priority tier has run and no priority candidate is
\* eligible, or every eligible one scores below fastThreshold, every
\* fallback engine is invoked exactly once on the same crop, after all
\* priority engines have finished and before the result is returned.
C4_FallbackRuns ==
    /\ \A i \in 1..Len(priority) : Len(p_calls[i]) <= 1
    /\ \A j \in 1..Len(fallback) :
         /\ Len(f_calls[j]) <= 1
         /\ f_calls[j] # <<>> =>
              /\ f_calls[j][1] = Unwrap(crop)
              /\ \A i \in 1..Len(priority) : p_calls[i] = <<Unwrap(crop)>>
    /\ (PriorityJoined
        /\ \A i \in EligibleIn(PriorityPool) :
             Eff(PriorityPool[i]) < fast_threshold * ScoreOne) =>
          /\ pc = "fallback" => ret = None
          /\ Returned => \A j \in 1..Len(fallback) :
                           f_calls[j] = <<Unwrap(crop)>>

\* An eligible priority candidate below the threshold: both fallback
\* engines have been called when the result is returned.
C4_Witness ==
    /\ Returned
    /\ EligibleIn(PriorityPool) # {}
    /\ \A i \in EligibleIn(PriorityPool) :
         Eff(PriorityPool[i]) < fast_threshold * ScoreOne
    /\ \A j \in 1..Len(fallback) : Len(f_calls[j]) = 1
    /\ Len(fallback) = 2

\* C5: when the fallback tier has run, the returned candidate is an
\* eligible candidate of the merged pool whose effective score is maximal
\* among the eligible ones; a priority candidate below fastThreshold wins
\* when its effective score is the highest.
C5_BestOfMergedPool ==
    FallbackRan =>
        LET pool == FullPool
            best == BestIn(pool)
        IN  best # {} => \E k \in best : IsReadingOf(Unwrap(ret), pool[k])

\* A priority candidate below the threshold beats an eligible fallback
\* candidate of higher confidence and lower effective score.
C5_Witness ==
    /\ FallbackRan
    /\ Len(PriorityPool) >= 1
    /\ BestIn(FullPool) = {1}
    /\ \E j \in EligibleIn(FullPool) :
         /\ j > Len(PriorityPool)
         /\ FullPool[j].confidence > FullPool[1].confidence
    /\ IsReadingOf(Unwrap(ret), FullPool[1])

\* The pool the returned candidate was picked from.
DecidedPool == IF FallbackRan THEN FullPool ELSE PriorityPool

Last(S) == CHOOSE k \in S : \A j \in S : j <= k
First(S) == CHOOSE k \in S : \A j \in S : k <= j

\* C6, as stated: of eligible candidates with equal effective score the
\* one first in pool order wins.
C6_FirstOfTiedWins ==
    Returned =>
        LET pool == DecidedPool
            best == BestIn(pool)
        IN  best # {} => IsReadingOf(Unwrap(ret), pool[First(best)])

\* C6, amended: of eligible candidates with equal effective score the one
\* last in pool order wins (priority results in backend-list order, then
\* fallback results in backend-list order).
C6_LastOfTiedWins ==
    Returned =>
        LET pool == DecidedPool
            best == BestIn(pool)
        IN  best # {} => IsReadingOf(Unwrap(ret), pool[Last(best)])

\* A priority and a fallback candidate tie and the fallback one wins.
C6_Witness ==
    /\ FallbackRan
    /\ LET pool == FullPool
           best == BestIn(pool)
       IN  /\ Cardinality(best) >= 2
           /\ First(best) <= Len(PriorityPool)
           /\ Last(best) > Len(PriorityPool)
           /\ IsReadingOf(Unwrap(ret), pool[Last(best)])

\* The rectangle read_region receives is empty once clamped to the frame.
Degenerate ==
    \/ Max(region.x, 0) >= frame_width
    \/ Max(region.y, 0) >= frame_height
    \/ Max(region.width, 0) = 0
    \/ Max(region.height, 0) = 0

\* C7: read_region clamps the right and bottom edges to the frame, and
\* for an empty clamped rectangle returns the all-empty result without
\* invoking recognize on any priority or fallback engine.
C7_DegenerateGeometry ==
    /\ (Degenerate /\ pc # "entry") =>
          /\ Returned
          /\ ret = Some(EmptyReading)
          /\ \A i \in 1..Len(priority) : p_calls[i] = <<>>
          /\ NoFallbackCall
    /\ crop # None =>
          /\ ~Degenerate
          /\ Unwrap(crop).x = Max(region.x, 0)
          /\ Unwrap(crop).y = Max(region.y, 0)
          /\ Unwrap(crop).w > 0 /\ Unwrap(crop).h > 0
          /\ Unwrap(crop).x + Unwrap(crop).w
                = Min(Max(region.x, 0) + Max(region.width, 0), frame_width)
          /\ Unwrap(crop).y + Unwrap(crop).h
                = Min(Max(region.y, 0) + Max(region.height, 0), frame_height)
    /\ (~Degenerate /\ pc # "entry") => crop # None

\* A rectangle of positive size that lies right of a non-empty frame.
C7_Witness ==
    /\ Returned
    /\ frame_width > 0 /\ frame_height > 0
    /\ region.x >= frame_width
    /\ region.width > 0 /\ region.height > 0
    /\ ret = Some(EmptyReading)
    /\ \A i \in 1..Len(priority) : p_calls[i] = <<>>

\* The scored candidate parses as a number under a numeric expectation.
ScoredNumber == s_done /\ s_exp.numeric /\ ValueOf(s_text) # None
ScoredValue == Unwrap(ValueOf(s_text))

\* The violations of the scored candidate, as the specification lists them.
BelowMin == s_exp.min # None /\ NumLt(ScoredValue, Unwrap(s_exp.min))
AboveMax == s_exp.max # None /\ NumLt(Unwrap(s_exp.max), ScoredValue)
WrongDecimalPlaces ==
    /\ s_exp.decimal_places # None
    /\ ScoredValue.d # Unwrap(s_exp.decimal_places)
WrongTotalDigits ==
    /\ s_exp.total_digits # None
    /\ Len(SelectSeq(clean_number(s_text), IsDigit))
           # Unwrap(s_exp.total_digits)
TooFarFromPrevious ==
    /\ s_prev # None
    /\ s_exp.max_deviation # None
    /\ Unwrap(s_exp.max_deviation).m > 0
    /\ ~AbsDiffLe(ScoredValue, Unwrap(s_prev), Unwrap(s_exp.max_deviation))

If(cond, n) == IF cond THEN n ELSE 1

\* The penalties other than the deviation penalty, as a fraction.
ShapeNum ==
    If(BelowMin, 2) * If(AboveMax, 2) * If(WrongDecimalPlaces, 13)
        * If(WrongTotalDigits, 13)
ShapeDen ==
    If(BelowMin, 5) * If(AboveMax, 5) * If(WrongDecimalPlaces, 20)
        * If(WrongTotalDigits, 20)

\* C8: validation_score is a multiplier strictly greater than 0 and at most
\* 1, for every text, expectation (min > max included) and previous value.
C8_ScoreInUnitInterval == s_done => (0 < s_score /\ s_score <= ScoreOne)

\* "15" violates both bounds of {min 100, max 0}, both shapes and the
\* deviation limit: the smallest product of penalties.
C8_Witness ==
    /\ ScoredNumber
    /\ BelowMin /\ AboveMax /\ WrongDecimalPlaces /\ WrongTotalDigits
    /\ TooFarFromPrevious
    /\ NumLt(Unwrap(s_exp.max), Unwrap(s_exp.min))
    /\ s_score * 5 * 5 * 20 * 20 * 2 = ScoreOne * 2 * 2 * 13 * 13

\* C9: for a numeric expectation and a text that parses, validation_score
\* is the product, from 1.0, of x0.4 per violated bound, x0.65 for a wrong
\* decimal-place count, x0.65 for a wrong digit count and x0.5 for a too
\* large deviation; unset fields contribute nothing.
C9_ProductOfPenalties ==
    ScoredNumber =>
        s_score * ShapeDen * If(TooFarFromPrevious, 2) = ScoreOne * ShapeNum

\* Only the digit count is wrong: the score is 0.65.
C9_Witness ==
    /\ ScoredNumber
    /\ WrongTotalDigits
    /\ ~BelowMin /\ ~AboveMax /\ ~WrongDecimalPlaces /\ ~TooFarFromPrevious
    /\ s_exp.min # None /\ s_exp.max # None
    /\ s_exp.decimal_places # None /\ s_exp.max_deviation # None
    /\ s_prev # None
    /\ s_score * 20 = ScoreOne * 13

DeviationOnly == Expectation(TRUE, None, None, None, None, Some(F(5)))

\* The score carries the x0.5 deviation penalty.
DeviationPenaltyApplied == s_score * ShapeDen * 2 = ScoreOne * ShapeNum

\* C10: under a numeric expectation a candidate is eligible exactly when
\* it parses as v with min <= v <= max and, if max_deviation > 0 and a
\* previous value p exists, |v - p| <= max_deviation; for a value within
\* the bounds the hard constraint fails exactly when the x0.5 penalty
\* applies. With max_deviation 5 and previous value 20.0, "21.0" is
\* eligible with score 1.0 and "40.0" is ineligible.
C10_EligibleExactly ==
    (s_done /\ s_exp.numeric) =>
        /\ s_eligible <=> EligibleUnder(s_text, s_exp, s_prev)
        /\ (ValueOf(s_text) # None /\ WithinBounds(ScoredValue, s_exp)) =>
              (~s_eligible <=> DeviationPenaltyApplied)
        /\ (s_exp = DeviationOnly /\ s_prev = Some(F(20))) =>
              /\ s_text = <<"2", "1", ".", "0">> =>
                    (s_eligible /\ s_score = ScoreOne)
              /\ s_text = <<"4", "0", ".", "0">> => ~s_eligible

C10_Witness ==
    /\ s_done
    /\ s_exp = DeviationOnly
    /\ s_prev = Some(F(20))
    /\ s_text = <<"4", "0", ".", "0">>
    /\ ~s_eligible
    /\ DeviationPenaltyApplied

\* ------------------------------------------- claims on get_regions_at

Names(regions) == {regions[i].name : i \in 1..Len(regions)}
AsSet(regions) == {regions[i] : i \in 1..Len(regions)}

\* Timestamps strictly ascending.
StrictlySorted(kfs) ==
    \A i \in 1..Len(kfs) - 1 : NumLt(kfs[i].timestamp, kfs[i + 1].timestamp)

SameTime(a, b) == NumLe(a, b) /\ NumLe(b, a)

\* The adjacent pairs <<i, i + 1>> with the timestamp asked for strictly
\* between them, and those it lies after the first and up to the second of.
PairsAround == {i \in 1..Len(keyframes) - 1 :
                   /\ NumLt(keyframes[i].timestamp, ts)
                   /\ NumLt(ts, keyframes[i + 1].timestamp)}
PairsReaching == {i \in 1..Len(keyframes) - 1 :
                     /\ NumLt(keyframes[i].timestamp, ts)
                     /\ NumLe(ts, keyframes[i + 1].timestamp)}

\* The region of the list with the name (names are unique in a keyframe).
RegionNamed(regions, name) ==
    CHOOSE r \in AsSet(regions) : r.name = name

\* Every keyframe holds at least one region.
AllHoldRegions(kfs) == \A i \in 1..Len(kfs) : kfs[i].regions # <<>>

\* C11: for every keyframe i of a sorted list, get_regions_at at
\* keyframe[i].timestamp returns exactly keyframe[i].regions. Stated here
\* for strictly ascending timestamps, keyframes that all hold regions, and
\* without regard to the order of the regions.
C11_ExactAtKeyframes ==
    (i_done /\ StrictlySorted(keyframes) /\ AllHoldRegions(keyframes)) =>
        \A i \in 1..Len(keyframes) :
            SameTime(ts, keyframes[i].timestamp) =>
                AsSet(regions_at) = AsSet(keyframes[i].regions)

\* The names of keyframe i that no earlier keyframe holds.
NewAt(i) ==
    Names(keyframes[i].regions)
        \ UNION {Names(keyframes[j].regions) : j \in 1..i - 1}

\* C12, as stated: a region present only in the later keyframe b of a pair
\* (a, b) is in the result for no timestamp before b's. Stated for names
\* that no keyframe before b holds, and keyframes that all hold regions.
C12_AbsentBeforeLater ==
    (i_done /\ AllHoldRegions(keyframes)) =>
        \A i \in 1..Len(keyframes) - 1 :
            NumLt(ts, keyframes[i + 1].timestamp) =>
                NewAt(i + 1) \cap Names(regions_at) = {}

\* C12, amended: a region present in keyframe b and in no earlier keyframe
\* is not in the result at or before the timestamp of the keyframe a that
\* precedes b (a.ts < b.ts), and is in it with b's rectangle unmodified
\* for every timestamp strictly between a's and b's.
C12_AddedRegion ==
    i_done =>
        \A i \in 1..Len(keyframes) - 1 :
            NumLt(keyframes[i].timestamp, keyframes[i + 1].timestamp) =>
                /\ NumLe(ts, keyframes[i].timestamp) =>
                       NewAt(i + 1) \cap Names(regions_at) = {}
                /\ i \in PairsAround =>
                       \A n \in NewAt(i + 1) :
                           RegionNamed(keyframes[i + 1].regions, n)
                               \in AsSet(regions_at)

\* "dial" is added at the second keyframe and asked for between the two.
C12_Witness ==
    /\ i_done
    /\ Len(keyframes) = 2
    /\ 1 \in PairsAround
    /\ NewAt(2) = {"dial"}
    /\ Dial(OddRect) \in AsSet(regions_at)
    /\ Len(regions_at) = 2

\* C13, as stated: for a non-empty keyframe list the result is non-empty
\* at every timestamp.
C13_EmptyOnlyWithoutKeyframes ==
    (i_done /\ keyframes # <<>>) => regions_at # <<>>

\* C13, amended: the result is empty only when the keyframe list is empty
\* or holds a keyframe without regions.
C13_EmptyOnlyWithoutRegions ==
    (i_done /\ regions_at = <<>>) =>
        \/ keyframes = <<>>
        \/ \E i \in 1..Len(keyframes) : keyframes[i].regions = <<>>

\* Keyframes that all hold regions, asked after the last one.
C13_Witness ==
    /\ i_done
    /\ Len(keyframes) >= 2
    /\ \A i \in 1..Len(keyframes) : keyframes[i].regions # <<>>
    /\ NumLt(keyframes[Len(keyframes)].timestamp, ts)
    /\ regions_at # <<>>

\* ts - a.ts and b.ts - a.ts in sixteenths of a second, as whole numbers
\* (the timestamps of these runs are whole numbers of sixteenths).
TimeNum(i) == Q16(ts) - Q16(keyframes[i].timestamp)
TimeDen(i) == Q16(keyframes[i + 1].timestamp) - Q16(keyframes[i].timestamp)

\* r = round(a + (b - a) * n/d) for d > 0: the nearest integer, a half
\* going away from zero.
IsRounded(r, a, b, n, d) ==
    LET p == a * d + (b - a) * n
    IN  /\ 2 * Abs(r * d - p) <= d
        /\ (2 * Abs(r * d - p) = d) => (Abs(r) * d > Abs(p))

IsLerped(out, ra, rb, n, d) ==
    /\ out.name = ra.name
    /\ IsRounded(out.x, ra.x, rb.x, n, d)
    /\ IsRounded(out.y, ra.y, rb.y, n, d)
    /\ IsRounded(out.width, ra.width, rb.width, n, d)
    /\ IsRounded(out.height, ra.height, rb.height, n, d)

\* The reference rule for the pair <<i, i + 1>>.
FollowsRule(out, a, b, i) ==
    LET added == {k \in 1..Len(b.regions) : b.regions[k].name
                                               \notin Names(a.regions)}
    IN  /\ Len(out) = Len(a.regions) + Cardinality(added)
        /\ \A k \in 1..Len(a.regions) :
              IF a.regions[k].name \in Names(b.regions)
              THEN IsLerped(out[k], a.regions[k],
                            RegionNamed(b.regions, a.regions[k].name),
                            TimeNum(i), TimeDen(i))
              ELSE out[k] = a.regions[k]
        /\ \A k \in added :
              out[Len(a.regions) + Cardinality({j \in added : j <= k})]
                  = b.regions[k]

ExampleKeyframes ==
    <<Keyframe(F(0), <<Gauge(SmallRect)>>),
      Keyframe(F(10), <<Gauge(LargeRect)>>)>>

\* C14: strictly between two adjacent keyframes a and b the result is the
\* reference rule with t = (ts - a.ts)/(b.ts - a.ts): a region in both has
\* every field round(a + (b - a) t), a region only in a keeps a's
\* rectangle, a region only in b is appended unmodified; "gauge" at
\* (0,0,100,50) at 0 s and (0,0,200,100) at 10 s is at (0,0,150,75) at 5 s.
C14_ReferenceRule ==
    i_done =>
        /\ \A i \in PairsAround :
               FollowsRule(regions_at, keyframes[i], keyframes[i + 1], i)
        /\ (keyframes = ExampleKeyframes /\ SameTime(ts, F(5))) =>
               regions_at = <<Gauge(Rect(0, 0, 150, 75))>>

\* A quarter of the way from (0,0,100,50) to (-3,5,1,4): -0.75, 1.25,
\* 75.25 and 38.5 round to -1, 1, 75 and 39.
C14_Witness ==
    /\ i_done
    /\ \E i \in PairsAround :
          /\ TimeDen(i) = 4 * TimeNum(i)
          /\ Gauge(SmallRect) \in AsSet(keyframes[i].regions)
          /\ Gauge(OddRect) \in AsSet(keyframes[i + 1].regions)
    /\ Gauge(Rect(-1, 1, 75, 39)) \in AsSet(regions_at)

Between(v, a, b) == Min(a, b) <= v /\ v <= Max(a, b)

\* C15: for the pair (a, b) the result was interpolated from, every field
\* of a region present in both lies between a's and b's field, inclusive.
C15_FieldsBetweenEndpoints ==
    (i_done /\ t_used # None) =>
        \A i \in PairsReaching :
            \A k \in 1..Len(keyframes[i].regions) :
                LET ra == keyframes[i].regions[k]
                IN  ra.name \in Names(keyframes[i + 1].regions) =>
                      LET rb == RegionNamed(keyframes[i + 1].regions,
                                            ra.name)
                          out == regions_at[k]
                      IN  /\ Between(out.x, ra.x, rb.x)
                          /\ Between(out.y, ra.y, rb.y)
                          /\ Between(out.width, ra.width, rb.width)
                          /\ Between(out.height, ra.height, rb.height)

\* Three quarters of the way from (-3,5,1,4) to (0,0,200,100).
C15_Witness ==
    /\ i_done /\ t_used # None
    /\ \E i \in PairsAround :
          /\ 4 * TimeNum(i) = 3 * TimeDen(i)
          /\ Gauge(OddRect) \in AsSet(keyframes[i].regions)
          /\ Gauge(LargeRect) \in AsSet(keyframes[i + 1].regions)
    /\ Gauge(Rect(-1, 1, 150, 76)) \in AsSet(regions_at)

\* C16, as stated: at or before the first keyframe's timestamp the result
\* is the first keyframe's regions, at or after the last keyframe's
\* timestamp the last keyframe's regions.
C16_ClampsVerbatim ==
    (i_done /\ keyframes # <<>>) =>
        /\ NumLe(ts, keyframes[1].timestamp) =>
               regions_at = keyframes[1].regions
        /\ NumLe(keyframes[Len(keyframes)].timestamp, ts) =>
               regions_at = keyframes[Len(keyframes)].regions

\* C16, amended: the last keyframe's regions are returned at or after the
\* last keyframe's timestamp when the timestamp is after the first
\* keyframe's; at or before the first keyframe's timestamp the first
\* keyframe's regions are returned.
C16_ClampLowFirst ==
    (i_done /\ keyframes # <<>>) =>
        /\ NumLe(ts, keyframes[1].timestamp) =>
               regions_at = keyframes[1].regions
        /\ (/\ NumLe(keyframes[Len(keyframes)].timestamp, ts)
            /\ NumLt(keyframes[1].timestamp, ts)) =>
               regions_at = keyframes[Len(keyframes)].regions

\* Asked exactly at the first keyframe, whose successor adds a region.
C16_Witness ==
    /\ i_done
    /\ Len(keyframes) >= 2
    /\ SameTime(ts, keyframes[1].timestamp)
    /\ NumLt(keyframes[1].timestamp, keyframes[2].timestamp)
    /\ NewAt(2) # {}
    /\ regions_at = keyframes[1].regions

\* C17: whenever get_regions_at computes the interpolation factor, the
\* pair (a, b) it divides for has a.timestamp < b.timestamp, also when
\* adjacent keyframes share a timestamp.
C17_NoDivisionByZero ==
    (i_done /\ t_used # None) =>
        /\ IsFinite(Unwrap(t_used))
        /\ NumLt(F(0), Unwrap(t_used))

\* The timestamp asked for is the one two inner keyframes share.
C17_Witness ==
    /\ i_done /\ t_used # None
    /\ \E i \in 2..Len(keyframes) - 2 :
          /\ SameTime(keyframes[i].timestamp, keyframes[i + 1].timestamp)
          /\ SameTime(ts, keyframes[i].timestamp)
    /\ SameTime(Unwrap(t_used), F(1))

\* ------------------------------------------- claims on backend failure

\* The results that are present among what the engines returned, in engine
\* order.
Present(rets) ==
    LET some == SelectSeq(rets, IsSome)
    IN  [i \in 1..Len(some) |-> Unwrap(some[i])]

Returns(rets) == {rets[i] : i \in 1..Len(rets)}
AllCalled(calls) == \A i \in 1..Len(calls) : calls[i] # <<>>

\* C20: a backend whose recognize returns nothing contributes no candidate
\* and the candidates of the other backends are still considered: the pool
\* of each tier is exactly the present results in engine order, and with
\* no expectation the returned reading is that of a present candidate; when
\* every backend of both tiers returns nothing, or both tiers are empty,
\* read_region returns the all-empty result.
C20_BackendFailureRecovered ==
    /\ pc = "fallback" => priority_results = Present(p_ret)
    /\ FallbackRan =>
          /\ fallback_results = Present(f_ret)
          /\ priority_results = Present(p_ret) \o Present(f_ret)
    /\ (pc \in {"priority", "fallback"}
        /\ AllCalled(p_calls) /\ Returns(p_ret) \subseteq {None}
        /\ AllCalled(f_calls) /\ Returns(f_ret) \subseteq {None}) =>
          ENABLED Next
    /\ (Returned /\ Returns(p_ret) \cup Returns(f_ret) \subseteq {None}) =>
          ret = Some(EmptyReading)
    /\ (FallbackRan /\ expectation = None
        /\ Returns(p_ret) \cup Returns(f_ret) # {None}
        /\ Returns(p_ret) \cup Returns(f_ret) # {}) =>
          \E r \in (Returns(p_ret) \cup Returns(f_ret)) \ {None} :
              IsReadingOf(Unwrap(ret), Unwrap(r))

\* The first priority and the first fallback engine return nothing, the
\* other two return candidates, and the reading is one of theirs.
C20_Witness ==
    /\ FallbackRan
    /\ Len(p_ret) = 2 /\ Len(f_ret) = 2
    /\ p_ret[1] = None /\ p_ret[2] # None
    /\ f_ret[1] = None /\ f_ret[2] # None
    /\ Len(priority_results) = 2
    /\ ret # Some(EmptyReading)

\* ------------------------------------------------------ claims on extract

RegionNames == {"gauge", "dial"}

\* The measurements of the name whose value parses as a number.
AcceptedOf(ms, name) ==
    {i \in 1..Len(ms) :
        ms[i].region_name = name /\ ParseF64(ms[i].value) # None}

\* The value of the last of them, if any.
LastAccepted(ms, name) ==
    IF AcceptedOf(ms, name) = {} THEN None
    ELSE ParseF64(ms[Last(AcceptedOf(ms, name))].value)

\* C18: while the region tasks of a frame run, in any order, prev_values
\* is not written: it stays as it stood when the frame started, which is
\* what the measurements of the earlier frames determine, and every task
\* has received the value of its region's name in that map.
C18_PreviousValueSnapshot ==
    x_pc = "fanout" =>
        /\ prev_values = frame_prev
        /\ \A n \in RegionNames :
              prev_of(frame_prev, n) = LastAccepted(measurements, n)
        /\ \A i \in 1..Len(outcomes) :
              outcomes[i] # None =>
                  Unwrap(outcomes[i]).prev
                      = LastAccepted(measurements, frame_regions[i].name)

\* In the second frame the task of the second region has run before that
\* of the first: it received the 10 accepted in the first frame and read
\* 20, and the map still holds 10.
C18_Witness ==
    /\ x_pc = "fanout"
    /\ Len(outcomes) = 2
    /\ outcomes[1] = None
    /\ outcomes[2] # None
    /\ Unwrap(outcomes[2]).prev = ParseF64(<<"1", "0">>)
    /\ Unwrap(outcomes[2]).m.value = <<"2", "0">>
    /\ prev_of(prev_values, frame_regions[2].name) = ParseF64(<<"1", "0">>)

EventsOf(e) == {i \in 1..Len(events) : events[i].e = e}

\* A load of the flag returned true.
ObservedSet == \E i \in EventsOf("poll") : events[i].v

\* The names of the measurements of frame n, in the order of the list.
MeasuredAt(ms, n) ==
    LET AtFrame(m) == m.frame_number = n
        at == SelectSeq(ms, AtFrame)
    IN  [i \in 1..Len(at) |-> at[i].region_name]

NamesAt(n) ==
    LET rs == get_regions_at(keyframes, FrameTime(n, fps))
    IN  [i \in 1..Len(rs) |-> rs[i].name]

\* C19: the flag is loaded once in each iteration, before the frame is
\* decoded: the frame's load returned false and only cancel_extract calls
\* lie between it and the decode; once a load has returned true nothing
\* more is decoded or processed and extract returns the measurements made
\* so far; and every frame that was decoded, also one during whose
\* processing the flag was set, has one measurement for each of its
\* regions in the result.
C19_Cancellation ==
    /\ x_pc \in {"loop", "decode", "fanout", "done"} =>
          /\ Cardinality(EventsOf("poll"))
                 = elapsed + (IF x_pc \in {"decode", "fanout"} THEN 1 ELSE 0)
                           + (IF ObservedSet THEN 1 ELSE 0)
          /\ \A i \in EventsOf("decode") :
                \E j \in EventsOf("poll") :
                    /\ j < i
                    /\ events[j].frame = events[i].frame
                    /\ ~events[j].v
                    /\ \A k \in j + 1..i - 1 : events[k].e = "cancel"
    /\ ObservedSet =>
          /\ x_pc = "done"
          /\ events[Len(events)].e = "poll"
          /\ Unwrap(result).measurements = measurements
    /\ x_pc = "done" =>
          \A i \in EventsOf("decode") :
              events[i].v =>
                  MeasuredAt(Unwrap(result).measurements, events[i].frame)
                      = NamesAt(events[i].frame)

\* The flag is set while the two regions of a decoded frame are being
\* read: the frame is finished, its two measurements are in the result,
\* and the next load of the flag ends the loop.
C19_Witness ==
    /\ x_pc = "done"
    /\ ObservedSet
    /\ \E i \in EventsOf("decode"), j \in EventsOf("cancel") :
          /\ events[i].v
          /\ j = i + 1
          /\ events[j + 1].e = "progress"
          /\ events[j + 1].frame = events[i].frame
          /\ events[j + 2].e = "poll"
          /\ Len(MeasuredAt(Unwrap(result).measurements, events[i].frame)) = 2

\* ------------------------------------------- claims on the result of extract

\* str::lines of a text that ends with a line feed.
RECURSIVE Lines(_)
Lines(t) ==
    IF t = <<>> THEN <<>>
    ELSE <<FirstLine(t)>>
             \o Lines(SubSeq(t, Len(BeforeLineFeed(t)) + 2, Len(t)))

WithoutLineFeed(row) == SubSeq(row, 1, Len(row) - 1)

\* <<frame, name>> for every region of every frame that was decoded, in the
\* order of the loop.
RECURSIVE RowsOfDecoded(_)
RowsOfDecoded(evs) ==
    IF evs = <<>> THEN <<>>
    ELSE (IF Head(evs).e = "decode" /\ Head(evs).v
          THEN [i \in 1..Len(NamesAt(Head(evs).frame)) |->
                   <<Head(evs).frame, NamesAt(Head(evs).frame)[i]>>]
          ELSE <<>>)
         \o RowsOfDecoded(Tail(evs))

\* The measurement list holds one measurement per region per decoded frame,
\* in frame order; after a frame that failed to decode the loop goes on to
\* the next sampled frame.
MeasurementsPerFrame ==
    x_pc = "done" =>
        LET ms == Unwrap(result).measurements
        IN  /\ [k \in 1..Len(ms) |-> <<ms[k].frame_number, ms[k].region_name>>]
                   = RowsOfDecoded(events)
            /\ \A j, k \in 1..Len(ms) :
                  j < k => ms[j].frame_number <= ms[k].frame_number
            /\ \A i \in EventsOf("decode") :
                  (/\ ~events[i].v
                   /\ ~ObservedSet
                   /\ events[i].frame + Step(fps_sample) <= last_frame)
                  => \E j \in EventsOf("poll") :
                        /\ j > i
                        /\ events[j].frame
                               = events[i].frame + Step(fps_sample)

\* The CSV holds the header line and then one line per measurement, in the
\* order of the list.
CsvPerMeasurement ==
    x_pc = "done" =>
        LET ms == Unwrap(result).measurements
            lines == Lines(Unwrap(result).csv)
        IN  /\ Len(lines) = 1 + Len(ms)
            /\ lines[1] = WithoutLineFeed(CsvHeader)
            /\ \A k \in 1..Len(ms) :
                  lines[k + 1] = WithoutLineFeed(CsvRow(ms[k]))

\* C23: when extract has returned, the measurement list and the CSV built
\* from it hold exactly one row per region per decoded frame, in frame
\* order; a frame that failed to decode contributes nothing and the loop
\* continues with the next sampled frame.
C23_OneRowPerRegionPerFrame == MeasurementsPerFrame /\ CsvPerMeasurement

\* -------------------------------------------------- claims on recognize

\* The texts the backend put out: the first text of the prediction, the
\* texts of the PSMs whose calls succeeded.
OutputTexts ==
    IF r_engine \in OarNames
    THEN (IF r_backend = None \/ Unwrap(r_backend).texts = <<>> THEN {}
          ELSE {Unwrap(r_backend).texts[1]})
    ELSE {Unwrap(r_backend[i]).raw :
            i \in {j \in 1..Len(r_backend) : r_backend[j] # None}}

\* C21: for every engine, when every text the backend put out is empty
\* once white space is trimmed, recognize returns nothing; and recognize
\* never returns an OcrResult whose trimmed text is empty.
C21_NoEmptyResult ==
    r_done =>
        /\ (\A t \in OutputTexts : Trim(t) = <<>>) => r_ret = None
        /\ r_ret # None => Trim(Unwrap(r_ret).text) # <<>>

\* ------------------------------------------------ claims on clean_number

\* The text after the mappings: the first line, trimmed, ',' to '.',
\* apostrophes deleted, O to 0, l and I to 1, S to 5, degree signs and
\* spaces deleted.
Normalised(text) ==
    StripDegreeAndSpace(FixConfusions(FixSeparators(Trim(FirstLine(text)))))

\* A numeric token: an optional minus sign, digits, and at most one
\* decimal point, which is not the first character; it holds a digit.
IsNumericToken(s) ==
    /\ \E i \in 1..Len(s) : IsDigit(s[i])
    /\ s[1] = "-" \/ IsDigit(s[1])
    /\ \A i \in 2..Len(s) : IsDigit(s[i]) \/ s[i] = "."
    /\ Cardinality({i \in 1..Len(s) : s[i] = "."}) <= 1

\* The numeric tokens of s, as <<first index, last index>>.
TokensOf(s) ==
    {pq \in (1..Len(s)) \X (1..Len(s)) :
        pq[1] <= pq[2] /\ IsNumericToken(SubSeq(s, pq[1], pq[2]))}

\* The first of them, taken as far as it goes; "" if there is none.
FirstNumericToken(s) ==
    IF TokensOf(s) = {} THEN <<>>
    ELSE LET pq == CHOOSE a \in TokensOf(s) :
                       \A b \in TokensOf(s) :
                           \/ a[1] < b[1]
                           \/ a[1] = b[1] /\ b[2] <= a[2]
         IN  SubSeq(s, pq[1], pq[2])

\* C22: clean_number(text) is the first numeric token of the text after
\* the mappings; text before and after it is discarded, and a text with no
\* numeric token gives "".
C22_FirstNumericToken ==
    c_done => c_ret = FirstNumericToken(Normalised(c_text))

\* ------------------------------------- claims on non-numeric expectations

\* read_region has returned for a region whose expectation is not numeric.
NotNumericDone ==
    /\ pc = "done"
    /\ expectation # None
    /\ ~Unwrap(expectation).numeric

\* C24: under an expectation with numeric = false every candidate passes
\* the hard constraints and has the validation score 1.0, whatever the
\* other fields of the expectation say, and read_region returns what it
\* returns for the same engine outputs with no expectation.
C24_NotNumericNoConstraint ==
    NotNumericDone =>
        /\ \A i \in 1..Len(priority_results) :
              /\ passes_hard_constraints(priority_results[i].text,
                                         Unwrap(expectation), prev_value)
              /\ validation_score(priority_results[i].text,
                                  Unwrap(expectation), prev_value) = ScoreOne
        /\ ret = Some(ReadRegionOf(region, frame_width, frame_height,
                                   Collect(p_ret), Collect(f_ret),
                                   fast_threshold, None, prev_value))

\* The expectation is not numeric and asks for [0, 100], no decimal place
\* and three digits; "4.S" and "150" were read, the fallback tier ran, and
\* the out-of-range "150" is returned uncleaned.
C24_Witness ==
    /\ NotNumericDone
    /\ Unwrap(expectation).max = Some(F(100))
    /\ fallback_results # <<>>
    /\ \E i \in 1..Len(priority_results) :
          priority_results[i].text = <<"4", ".", "S">>
    /\ Unwrap(ret).value = <<"1", "5", "0">>


\* --------------------------------------- claims on the stored previous value

\* C25: between the frames and when extract has returned, prev_values holds
\* one number for each region name that has a measurement whose value
\* parsed as a number, and no entry for any other name; the number is the
\* value of the last such measurement, so that a measurement with an empty
\* or unparsable value, or a frame without the region, leaves it as it was.
C25_StoredPreviousValue ==
    x_pc \in {"loop", "decode", "fanout", "done"} =>
        /\ DOMAIN prev_values
               = {n \in RegionNames : AcceptedOf(measurements, n) # {}}
        /\ \A n \in DOMAIN prev_values :
              Some(prev_values[n]) = LastAccepted(measurements, n)

\* A region was read as 10, then as 20, then came back empty: the stored
\* value is 20.
C25_Witness ==
    /\ x_pc = "done"
    /\ \E n \in DOMAIN prev_values :
         /\ prev_values[n] = Unwrap(ParseF64(<<"2", "0">>))
         /\ \E i, j, k \in 1..Len(measurements) :
               /\ i < j /\ j < k
               /\ measurements[i].region_name = n
               /\ measurements[j].region_name = n
               /\ measurements[k].region_name = n
               /\ measurements[i].value = <<"1", "0">>
               /\ measurements[j].value = <<"2", "0">>
               /\ measurements[k].value = <<>>


\* --------------------------------------------------------- claims on CLAHE

TileArea == tile_area(h_img, h_tx, h_ty, h_size)
TileClip == clip_limit(TileArea, h_factor)

NonDecreasing(m) == \A i \in 0..Bins - 2 : m[i] <= m[i + 1]

\* C26: the histogram of a tile sums to the number of its pixels, before
\* the clipping and after the redistribution: what was clipped off is the
\* excess, excess / 256 of it is added to every bin and one more to each
\* of the first excess mod 256 bins; the lookup table made from it is
\* non-decreasing and its last entry is 255.
C26_ClipConservesHistogram ==
    /\ h_pc = "clip" => SumBins(hist, Bins - 1) = TileArea
    /\ h_pc = "redistribute" =>
          /\ SumBins(hist, Bins - 1) + excess = TileArea
          /\ \A i \in 0..Bins - 1 : hist[i] <= TileClip
    /\ h_pc \in {"mapping", "done"} =>
          /\ SumBins(hist, Bins - 1) = TileArea
          /\ \A i \in 0..Bins - 1 :
                hist[i] = Min(h_raw[i], TileClip) + excess \div 256
                          + (IF i < excess % 256 THEN 1 ELSE 0)
    /\ h_pc = "done" =>
          /\ NonDecreasing(mapping)
          /\ mapping[Bins - 1] = 255

\* A full tile of one gray level: more than 256 units are clipped off, so
\* every bin receives at least one and the first bins one more.
C26_Witness ==
    /\ h_pc = "done"
    /\ excess > 256
    /\ excess % 256 > 0
    /\ hist[0] = hist[Bins - 1] + 1
    /\ hist[Bins - 1] > 0
    /\ mapping[0] < mapping[Bins - 1]


\* ------------------------------------------- claims on the deviation limit

\* The names whose expectation is numeric with a max_deviation above zero.
LimitedNames ==
    {n \in RegionNames :
        /\ n \in DOMAIN ExtractExpectations
        /\ ExtractExpectations[n].numeric
        /\ ExtractExpectations[n].max_deviation # None
        /\ NumLt(F(0), Unwrap(ExtractExpectations[n].max_deviation))}

\* i and j are consecutive accepted readings of the name.
ConsecutiveAccepted(ms, n, i, j) ==
    /\ i \in AcceptedOf(ms, n) /\ j \in AcceptedOf(ms, n)
    /\ i < j
    /\ \A k \in AcceptedOf(ms, n) : ~(i < k /\ k < j)

\* C27: for a region whose expectation is numeric with max_deviation d > 0,
\* two consecutive accepted readings differ by at most d, however many
\* measurements with an empty value and frames without the region lie
\* between them.
C27_DeviationAcrossGaps ==
    \A n \in LimitedNames :
        \A i, j \in 1..Len(measurements) :
            ConsecutiveAccepted(measurements, n, i, j) =>
                AbsDiffLe(Unwrap(ParseF64(measurements[j].value)),
                          Unwrap(ParseF64(measurements[i].value)),
                          Unwrap(ExtractExpectations[n].max_deviation))

\* The region is read as 10, comes back empty in the next frame, and is
\* read as 10 again in the frame after it.
C27_Witness ==
    /\ x_pc = "done"
    /\ \E n \in LimitedNames :
         \E i, j \in 1..Len(measurements) :
            /\ ConsecutiveAccepted(measurements, n, i, j)
            /\ \E k \in i + 1..j - 1 :
                  /\ measurements[k].region_name = n
                  /\ measurements[k].value = <<>>
            /\ measurements[j].frame_number = measurements[i].frame_number + 2


\* ------------------------------------------------ claims on cancellation

\* C28: a cancel_extract call made at any moment of a run of extract, also
\* before the frame loop begins, is honoured: every load of the flag after
\* the call returns true, so no further frame is scheduled, and the reset
\* of the flag at the start of the loop erases no request of this run.
C28_CancelNeverErased ==
    \A j \in EventsOf("cancel") :
        /\ \A i \in EventsOf("poll") : i > j => events[i].v
        /\ \A i \in EventsOf("reset") : i > j => ~events[i].v


\* ------------------------------------------------ claims on the frame loop

\* The loop has run elapsed iterations, each of which moved frame_num on by
\* the step; the flag loads, one per iteration, are of strictly increasing
\* frames; no progress event reports an elapsed count that reaches the
\* total; a loop that no cancellation ended has run total_steps iterations.
LoopCounts ==
    x_pc \in {"loop", "decode", "fanout", "done"} =>
        /\ Step(fps_sample) >= 1
        /\ frame_num = first_frame + elapsed * Step(fps_sample)
        /\ \A i, j \in EventsOf("poll") :
              i < j => events[i].frame < events[j].frame
        /\ elapsed <= total_steps(first_frame, last_frame, fps_sample)
        /\ \A i \in EventsOf("progress") :
              /\ events[i].total
                     = total_steps(first_frame, last_frame, fps_sample)
              /\ events[i].elapsed_frames < events[i].total
        /\ (x_pc = "done" /\ ~ObservedSet) =>
              elapsed = total_steps(first_frame, last_frame, fps_sample)

\* C29: the frame loop terminates: the frame number grows by
\* max(fps_sample, 1) in every iteration, whether the frame was processed,
\* had no region or failed to decode; without cancellation the loop runs
\* exactly total_steps iterations; the elapsed count of a progress event
\* never exceeds its total; and extract returns.
C29_LoopTerminates == []LoopCounts /\ <>(x_pc \in {"done", "failed"})

\* A run with fps_sample 0 in which a frame without regions, a frame that
\* failed to decode and a processed frame were passed, and that no
\* cancellation ended.
C29_Witness ==
    /\ x_pc = "done"
    /\ fps_sample = 0
    /\ ~ObservedSet
    /\ elapsed = 3
    /\ Cardinality(EventsOf("decode")) = 2
    /\ \E i \in EventsOf("decode") : ~events[i].v
    /\ \E i \in EventsOf("progress") : events[i].elapsed_frames = 2


\* ------------------------------------------------ claims on keyframe order

\* get_regions_at has been evaluated for a frame of the run.
FrameQueried == \E i \in EventsOf("poll") : ~events[i].v

\* C30: the keyframe list is sorted ascending by timestamp whenever
\* get_regions_at is evaluated: load_config returns the keyframes of the
\* file sorted, and the list extract queries for its frames is sorted,
\* in whatever order the keyframes were supplied.
C30_SortedWhenQueried ==
    /\ IsSorted(load_config(keyframes))
    /\ FrameQueried => IsSorted(keyframes)


====
